---- MODULE Spec2Model ----
(***************************************************************************)
(* TSight (src/lineage.py): the in-memory catalog of tables, columns and   *)
(* transformations, the quality scoring, the lineage graph builder, the    *)
(* forms and buttons of the Tables and Transformations tabs, the JSON      *)
(* export and import, and the search.  There is one specification for each *)
(* of these, all over the same variables: SpecGraph, SpecScore, SpecUI,    *)
(* SpecIO, SpecSearch; SpecEdit is the two tabs with their Edit and Delete *)
(* buttons, and SpecFocus the way from a search result to the graph.       *)
(*                                                                         *)
(* Text is modelled as a sequence of one-character strings, so that the    *)
(* node ids the builder formats (f"{table}.{column}") are computed by      *)
(* concatenation and two different entities can end up with the same id,   *)
(* exactly as in the program.                                              *)
(***************************************************************************)
EXTENDS Integers, Sequences, FiniteSets, TLC

VARIABLES
    tables,           \* st.session_state.tables
    transformations,  \* st.session_state.transformations
    include_columns,  \* the "Show Column-level Lineage" option
    focus_entity,     \* the "Focus on Entity" option: None or an id
    graph,            \* the nx.DiGraph returned by create_lineage_graph
    phase,            \* the last operation run: "idle" at first, then its name
    clock,            \* datetime.now(), in ticks of a logical clock
    session,          \* the remaining keys of st.session_state
    event,            \* the widget values of the last operation and the message it showed
    document,         \* the JSON file at the import/export path
    results           \* the dict returned by search_lineage

vars == <<tables, transformations, include_columns, focus_entity, graph, phase, clock, session, event, document, results>>

-----------------------------------------------------------------------------
(* Text *)

\* Python's None, as a value no text equals.
None == <<"None">>

\* f"{a}.{b}"
Dotted(a, b) == a \o <<".">> \o b

\* Python truthiness of a str or a list: it is not empty.
Truthy(v) == Len(v) > 0

Range(s) == {s[i] : i \in DOMAIN s}

-----------------------------------------------------------------------------
(* Session state and files at the start of a session *)

\* "column_to_edit" is not a key of st.session_state (table_index 0)
NoColumnToEdit == [table_index |-> 0, table_name |-> None, col_index |-> 0]

\* the session-state defaults; an index is counted from 1 and 0 stands for None.
\* confirm_delete_table and confirm_delete_trans hold the indices i whose key
\* "confirm_delete_table_{i}" / "confirm_delete_trans_{i}" is set to True
InitialSession ==
    [selected_table_index |-> 0, selected_transformation_index |-> 0,
     column_to_edit |-> NoColumnToEdit,
     confirm_delete_table |-> {}, confirm_delete_trans |-> {},
     focus_entity |-> None]

\* no operation has run, nothing is shown
NoEvent == [message |-> "none"]

\* there is no file at the path
NoDocument == [exists |-> FALSE]

\* no search has run
NoResults == [tables |-> <<>>, columns |-> <<>>, transformations |-> <<>>]

-----------------------------------------------------------------------------
(* Data model *)

\* Column.__init__
Column(name, data_type, description, source_columns) ==
    [name |-> name, data_type |-> data_type, description |-> description,
     source_columns |-> source_columns, quality_score |-> 0]

\* Table.__init__ ; now is the creation time
Table(name, schema, description, autosys_jobs, table_type, now) ==
    [name |-> name, schema |-> schema, description |-> description,
     table_type |-> table_type, autosys_jobs |-> autosys_jobs,
     columns |-> <<>>, quality_score |-> 0, last_updated |-> now]

\* ColumnMapping.__init__
ColumnMapping(source_table, source_column, target_table, target_column, transformation_rule) ==
    [source_table |-> source_table, source_column |-> source_column,
     target_table |-> target_table, target_column |-> target_column,
     transformation_rule |-> transformation_rule]

\* Transformation.__init__ ; now is the creation time
Transformation(name, transformation_type, input_tables, output_tables, logic, description, column_mappings, autosys_jobs, now) ==
    [name |-> name, transformation_type |-> transformation_type,
     input_tables |-> input_tables, output_tables |-> output_tables,
     logic |-> logic, description |-> description,
     column_mappings |-> column_mappings, autosys_jobs |-> autosys_jobs,
     created_date |-> now]

\* DATABASE_TYPE_COLORS
DATABASE_TYPE_COLORS ==
    ("HIVE" :> "#FF9800") @@ ("Oracle" :> "#F44336") @@ ("Snowflake" :> "#2196F3") @@
    ("PostgreSQL" :> "#336791") @@ ("MySQL" :> "#4479A1") @@ ("SQL Server" :> "#CC2927") @@
    ("BigQuery" :> "#4285F4") @@ ("Redshift" :> "#8C4FFF") @@ ("Teradata" :> "#F37440") @@
    ("DB2" :> "#1F70C1") @@ ("Cassandra" :> "#1287B1") @@ ("MongoDB" :> "#47A248") @@
    ("Spark" :> "#E25A1C") @@ ("Delta Lake" :> "#00ADD4") @@ ("Iceberg" :> "#3F7CAC") @@
    ("Other" :> "#9E9E9E")

\* DATABASE_TYPE_COLORS.get(table_type, DATABASE_TYPE_COLORS['Other'])
TableColor(table_type) ==
    IF table_type \in DOMAIN DATABASE_TYPE_COLORS
    THEN DATABASE_TYPE_COLORS[table_type]
    ELSE DATABASE_TYPE_COLORS["Other"]

\* node_colors of create_lineage_graph
node_colors == [table |-> "#4CAF50", column |-> "#2196F3", transformation |-> "#FFC107"]

-----------------------------------------------------------------------------
(* networkx.DiGraph: nodes and edges are dictionaries of attribute         *)
(* dictionaries; adding a node or an edge that exists updates its          *)
(* attributes, and adding an edge creates the endpoints it lacks.          *)

\* nx.DiGraph()
EmptyGraph == [nodes |-> <<>>, edges |-> <<>>]

\* n in G
InGraph(G, n) == n \in DOMAIN G.nodes

\* G.add_node(n, **attrs)
add_node(G, n, attrs) ==
    [G EXCEPT !.nodes =
        IF n \in DOMAIN G.nodes
        THEN [G.nodes EXCEPT ![n] = attrs @@ G.nodes[n]]
        ELSE (n :> attrs) @@ G.nodes]

\* G.add_edge(u, v, **attrs)
add_edge(G, u, v, attrs) ==
    LET withU == IF u \in DOMAIN G.nodes THEN G.nodes ELSE (u :> <<>>) @@ G.nodes
        withV == IF v \in DOMAIN withU THEN withU ELSE (v :> <<>>) @@ withU
        e     == <<u, v>>
    IN  [nodes |-> withV,
         edges |-> IF e \in DOMAIN G.edges
                   THEN [G.edges EXCEPT ![e] = attrs @@ G.edges[e]]
                   ELSE (e :> attrs) @@ G.edges]

-----------------------------------------------------------------------------
(* create_lineage_graph *)

\* the focus test without its column clause
TableRetained_NameOnly(table, focus) ==
    ~ (focus # None /\ Truthy(focus) /\ focus # table.name)

\* the focus test of the table loop: the table is kept
TableRetained(table, focus) ==
    ~ (focus # None /\ Truthy(focus) /\
       ~ (focus = table.name \/
          \E j \in DOMAIN table.columns : focus = Dotted(table.name, table.columns[j].name)))

\* the tooltip of a table node
TableTooltip(table) ==
    <<"Type", table.table_type, "Schema", table.schema, table.description>>
    \o (IF Truthy(table.autosys_jobs) THEN <<"Autosys Jobs", table.autosys_jobs>> ELSE <<>>)

\* the tooltip of a transformation node
TransformationTooltip(t) ==
    <<"Type", t.transformation_type, "Description", t.description>>
    \o (IF Truthy(t.autosys_jobs) THEN <<"Autosys Jobs", t.autosys_jobs>> ELSE <<>>)

\* the column loop of one table: columns j.. of the table
RECURSIVE AddColumnNodes(_, _, _)
AddColumnNodes(G, table, j) ==
    IF j > Len(table.columns) THEN G
    ELSE LET column == table.columns[j]
             col_node_id == Dotted(table.name, column.name)
             G1 == add_node(G, col_node_id,
                        [label |-> column.name,
                         title |-> <<"Type", column.data_type, "Description", column.description>>,
                         shape |-> "ellipse",
                         color |-> node_colors.column,
                         size  |-> 10])
             G2 == add_edge(G1, table.name, col_node_id, <<>>)
         IN  AddColumnNodes(G2, table, j + 1)

\* the table loop without its focus test
AddTable_NoFocus(G, table, inc, focus) ==
    LET G1 == add_node(G, table.name,
                  [label |-> table.name,
                   title |-> TableTooltip(table),
                   shape |-> "box",
                   color |-> TableColor(table.table_type)])
    IN  IF inc THEN AddColumnNodes(G1, table, 1) ELSE G1

\* one iteration of "for table in tables"
AddTable(G, table, inc, focus) ==
    IF ~ TableRetained(table, focus) THEN G
    ELSE LET G1 == add_node(G, table.name,
                        [label |-> table.name,
                         title |-> TableTooltip(table),
                         shape |-> "box",
                         color |-> TableColor(table.table_type)])
         IN  IF inc THEN AddColumnNodes(G1, table, 1) ELSE G1

\* "for table in tables", from table k on
RECURSIVE AddTables(_, _, _, _, _)
AddTables(G, tbls, k, inc, focus) ==
    IF k > Len(tbls) THEN G
    ELSE AddTables(AddTable(G, tbls[k], inc, focus), tbls, k + 1, inc, focus)

\* a mapping's edges added when either of its column ids is a node
AddMappingEdges_EitherEndpoint(G, t, mapping) ==
    LET source_id == Dotted(mapping.source_table, mapping.source_column)
        target_id == Dotted(mapping.target_table, mapping.target_column)
    IN  IF InGraph(G, source_id) \/ InGraph(G, target_id)
        THEN add_edge(add_edge(G, source_id, t.name, [title |-> mapping.transformation_rule]),
                      t.name, target_id, <<>>)
        ELSE G

\* one column mapping of a transformation
AddMappingEdges(G, t, mapping) ==
    LET source_id == Dotted(mapping.source_table, mapping.source_column)
        target_id == Dotted(mapping.target_table, mapping.target_column)
    IN  IF InGraph(G, source_id) /\ InGraph(G, target_id)
        THEN add_edge(add_edge(G, source_id, t.name, [title |-> mapping.transformation_rule]),
                      t.name, target_id, <<>>)
        ELSE G

\* "for mapping in transformation.column_mappings", from mapping j on
RECURSIVE AddMappings(_, _, _)
AddMappings(G, t, j) ==
    IF j > Len(t.column_mappings) THEN G
    ELSE AddMappings(AddMappingEdges(G, t, t.column_mappings[j]), t, j + 1)

\* "for input_table in transformation.input_tables", column-level fallback
RECURSIVE AddInputEdges(_, _, _)
AddInputEdges(G, t, j) ==
    IF j > Len(t.input_tables) THEN G
    ELSE LET input_table == t.input_tables[j]
         IN  AddInputEdges(IF InGraph(G, input_table)
                           THEN add_edge(G, input_table, t.name, <<>>)
                           ELSE G,
                           t, j + 1)

\* "for output_table in transformation.output_tables", column-level fallback
RECURSIVE AddOutputEdges(_, _, _)
AddOutputEdges(G, t, j) ==
    IF j > Len(t.output_tables) THEN G
    ELSE LET output_table == t.output_tables[j]
         IN  AddOutputEdges(IF InGraph(G, output_table)
                            THEN add_edge(G, t.name, output_table, <<>>)
                            ELSE G,
                            t, j + 1)

\* the table-level edge added without looking for its endpoints
AddTableEdge_Unchecked(G, t, input_table, output_table) ==
    add_edge(G, input_table, output_table, [label |-> t.name, title |-> t.description])

\* the edge of one (input_table, output_table) pair in table-level mode
AddTableEdge(G, t, input_table, output_table) ==
    IF InGraph(G, input_table) /\ InGraph(G, output_table)
    THEN add_edge(G, input_table, output_table,
                  [label |-> t.name, title |-> t.description])
    ELSE G

\* the nested loops of table-level mode, from pair (i, o) on
RECURSIVE AddTableEdges(_, _, _, _)
AddTableEdges(G, t, i, o) ==
    IF i > Len(t.input_tables) THEN G
    ELSE IF o > Len(t.output_tables) THEN AddTableEdges(G, t, i + 1, 1)
    ELSE AddTableEdges(AddTableEdge(G, t, t.input_tables[i], t.output_tables[o]), t, i, o + 1)

\* one iteration of "for transformation in transformations"
AddTransformation(G, t, inc) ==
    IF inc
    THEN LET G1 == add_node(G, t.name,
                        [label |-> t.name,
                         title |-> TransformationTooltip(t),
                         shape |-> "diamond",
                         color |-> node_colors.transformation])
         IN  IF Truthy(t.column_mappings)
             THEN AddMappings(G1, t, 1)
             ELSE AddOutputEdges(AddInputEdges(G1, t, 1), t, 1)
    ELSE AddTableEdges(G, t, 1, 1)

\* "for transformation in transformations", from transformation k on
RECURSIVE AddTransformations(_, _, _, _)
AddTransformations(G, trs, k, inc) ==
    IF k > Len(trs) THEN G
    ELSE AddTransformations(AddTransformation(G, trs[k], inc), trs, k + 1, inc)

create_lineage_graph(tbls, trs, inc, focus) ==
    AddTransformations(AddTables(EmptyGraph, tbls, 1, inc, focus), trs, 1, inc)

-----------------------------------------------------------------------------
(* update_quality_scores *)

Min(a, b) == IF a < b THEN a ELSE b

\* the column score without the bonus for source references
ColumnScore_NoSources(column) ==
    LET has_description == IF Truthy(column.description) THEN 10 ELSE 0
        has_data_type   == IF Truthy(column.data_type) THEN 10 ELSE 0
    IN  Min(100, has_description + has_data_type)

\* a column score that adds the bonuses to the score already stored
ColumnScore_Accumulating(column) ==
    LET has_description == IF Truthy(column.description) THEN 10 ELSE 0
        has_data_type   == IF Truthy(column.data_type) THEN 10 ELSE 0
        has_sources     == IF Truthy(column.source_columns) THEN 10 ELSE 0
    IN  Min(100, column.quality_score + has_description + has_data_type + has_sources)

\* column.quality_score, from the completeness of the column's metadata
ColumnScore(column) ==
    LET has_description == IF Truthy(column.description) THEN 10 ELSE 0
        has_data_type   == IF Truthy(column.data_type) THEN 10 ELSE 0
        has_sources     == IF Truthy(column.source_columns) THEN 10 ELSE 0
    IN  Min(100, has_description + has_data_type + has_sources)

\* the columns of a table after "for column in table.columns"
ScoredColumns(columns) ==
    [j \in DOMAIN columns |-> [columns[j] EXCEPT !.quality_score = ColumnScore(columns[j])]]

\* quality_sum over the first j columns
RECURSIVE QualitySum(_, _)
QualitySum(columns, j) ==
    IF j = 0 THEN 0 ELSE QualitySum(columns, j - 1) + columns[j].quality_score

\* the score of a table without columns, its description forgotten
EmptyTableScore_NoDescription(table) == 0

\* the score of a table without columns
EmptyTableScore(table) ==
    LET has_description == IF Truthy(table.description) THEN 20 ELSE 0
    IN  has_description

\* table.quality_score, given the scored columns and their sum:
\* int(quality_sum / len(columns) * 0.8 + has_description) truncates; the
\* operands are not negative, so it is the floor of the exact value
TableScore(table, columns, quality_sum) ==
    IF Truthy(columns)
    THEN LET has_description == IF Truthy(table.description) THEN 20 ELSE 0
         IN  Min(100, ((quality_sum * 8) \div (Len(columns) * 10)) + has_description)
    ELSE EmptyTableScore(table)

\* one iteration of "for table in st.session_state.tables"
ScoredTable(table) ==
    LET columns == ScoredColumns(table.columns)
    IN  [table EXCEPT !.columns = columns,
                      !.quality_score = TableScore(table, columns, QualitySum(columns, Len(columns)))]

update_quality_scores(tbls) == [k \in DOMAIN tbls |-> ScoredTable(tbls[k])]

-----------------------------------------------------------------------------
(* The catalogs the graph builder is run on.  Any catalog can be in the   *)
(* session: names are free text and import_data installs whatever the     *)
(* document holds.                                                         *)

A  == <<"A">>
B  == <<"B">>
C  == <<"C">>
T  == <<"T">>
U  == <<"U">>
x  == <<"x">>
y  == <<"y">>
z  == <<"z">>
AX == Dotted(A, x)    \* the text "A.x"

\* the largest number of tables and transformations of a catalog, together
MaxEntities == 4

SeqsUpTo(S, n) == UNION {[1..k -> S] : k \in 0..n}

WithColumns(table, columns) == [table EXCEPT !.columns = columns]

GraphTables ==
    { WithColumns(Table(A, <<"s">>, <<"d">>, <<<<"J">>>>, "HIVE", 0),
                  <<Column(x, <<"i">>, <<>>, <<>>)>>),
      WithColumns(Table(B, <<"s">>, <<>>, <<>>, "Oracle", 0),
                  <<Column(y, <<"i">>, <<"d">>, <<AX>>)>>),
      Table(C, <<"s">>, <<>>, <<>>, "Other", 0),
      Table(AX, <<"s">>, <<>>, <<>>, "Parquet", 0) }

GraphTransformations ==
    { Transformation(T, "SQL", <<A, B>>, <<C>>, <<>>, <<"d">>, <<>>, <<>>, 0),
      Transformation(T, "SQL", <<A>>, <<B>>, <<>>, <<"d">>,
                     <<ColumnMapping(A, x, B, y, <<"r">>)>>, <<>>, 0),
      Transformation(T, "SQL", <<A>>, <<B>>, <<>>, <<"d">>, <<>>, <<>>, 0),
      Transformation(U, "ETL", <<A>>, <<B>>, <<>>, <<>>, <<>>, <<<<"J">>>>, 0),
      Transformation(T, "Python", <<U>>, <<B>>, <<>>, <<>>, <<>>, <<>>, 0),
      Transformation(U, "SQL", <<A>>, <<C>>, <<>>, <<>>,
                     <<ColumnMapping(A, x, C, z, <<>>)>>, <<>>, 0),
      Transformation(AX, "Custom", <<A>>, <<B>>, <<>>, <<>>, <<>>, <<>>, 0) }

FocusChoices == {None, A, AX, B}

InitGraph ==
    /\ tables \in SeqsUpTo(GraphTables, MaxEntities)
    /\ transformations \in SeqsUpTo(GraphTransformations, MaxEntities - Len(tables))
    /\ include_columns \in BOOLEAN
    /\ focus_entity \in FocusChoices
    /\ graph = EmptyGraph
    /\ phase = "idle"
    /\ clock = 0
    /\ session = InitialSession
    /\ event = NoEvent
    /\ document = NoDocument
    /\ results = NoResults

\* render_lineage_graph_tab: the graph is built from the catalog and the view options
BuildGraph ==
    /\ graph' = create_lineage_graph(tables, transformations, include_columns, focus_entity)
    /\ phase' = "built"
    /\ UNCHANGED <<tables, transformations, include_columns, focus_entity, clock, session, event, document, results>>

NextGraph == BuildGraph

SpecGraph == InitGraph /\ [][NextGraph]_vars

-----------------------------------------------------------------------------
(* The catalogs update_quality_scores is run on: every combination of      *)
(* present and absent column metadata, with scores left from before.       *)

\* the largest number of tables of a scored catalog
MaxScoredTables == 2

\* the largest number of columns of a scored catalog, over all its tables
MaxColumns == 3

\* a score left by an earlier state of the catalog (or by an imported document)
StaleScores == {0, 100}

ScoreColumns(stale) ==
    { [Column(x, dt, d, src) EXCEPT !.quality_score = stale] :
        dt \in {<<>>, <<"i">>}, d \in {<<>>, <<"d">>}, src \in {<<>>, <<AX>>} }

\* lens[1] + ... + lens[k]
RECURSIVE SumTo(_, _)
SumTo(lens, k) == IF k = 0 THEN 0 ELSE SumTo(lens, k - 1) + lens[k]

\* the catalog of n tables, table k with the description descs[k] and the next
\* lens[k] columns of flat
ScoreCatalog(stale, n, lens, descs, flat) ==
    [k \in 1..n |->
        [Table(A, <<"s">>, descs[k], <<>>, "Other", 0) EXCEPT
            !.columns = [j \in 1..lens[k] |-> flat[SumTo(lens, k - 1) + j]],
            !.quality_score = stale]]

InitScore ==
    /\ \E stale \in StaleScores, n \in 0..MaxScoredTables :
          \E lens \in [1..n -> 0..MaxColumns], descs \in [1..n -> {<<>>, <<"d">>}] :
              /\ SumTo(lens, n) <= MaxColumns
              /\ \E flat \in [1..SumTo(lens, n) -> ScoreColumns(stale)] :
                    tables = ScoreCatalog(stale, n, lens, descs, flat)
    /\ transformations = <<>>
    /\ include_columns = FALSE
    /\ focus_entity = None
    /\ graph = EmptyGraph
    /\ phase = "idle"
    /\ clock = 0
    /\ session = InitialSession
    /\ event = NoEvent
    /\ document = NoDocument
    /\ results = NoResults

\* update_quality_scores()
UpdateQualityScores ==
    /\ tables' = update_quality_scores(tables)
    /\ phase' = "scored"
    /\ UNCHANGED <<transformations, include_columns, focus_entity, graph, clock, session, event, document, results>>

NextScore == UpdateQualityScores

SpecScore == InitScore /\ [][NextScore]_vars

-----------------------------------------------------------------------------
(* Python list and str operations the handlers use *)

\* list.pop(j), j counted from 1: the list without its j-th element
pop(list, j) == SubSeq(list, 1, j - 1) \o SubSeq(list, j + 1, Len(list))

\* the position of the first element of list equal to v
index(list, v) ==
    CHOOSE k \in DOMAIN list : list[k] = v /\ \A m \in 1..(k - 1) : list[m] # v

\* list.remove(v), for v in list: the list without the first element equal to v
remove(list, v) == pop(list, index(list, v))

\* text.split(sep)
RECURSIVE split(_, _)
split(text, sep) ==
    IF sep \in Range(text)
    THEN LET k == index(text, sep)
         IN  <<SubSeq(text, 1, k - 1)>> \o split(SubSeq(text, k + 1, Len(text)), sep)
    ELSE <<text>>

RECURSIVE lstrip(_)
lstrip(text) == IF text # <<>> /\ Head(text) = " " THEN lstrip(Tail(text)) ELSE text

RECURSIVE rstrip(_)
rstrip(text) ==
    IF text # <<>> /\ text[Len(text)] = " "
    THEN rstrip(SubSeq(text, 1, Len(text) - 1))
    ELSE text

\* text.strip(), the white space being the space character
strip(text) == rstrip(lstrip(text))

\* [job.strip() for job in autosys_jobs_input.split('\n') if job.strip()],
\* the text area's value given as the sequence of its lines
ParsedJobs(lines) == SelectSeq([k \in DOMAIN lines |-> strip(lines[k])], Truthy)

-----------------------------------------------------------------------------
(* The Tables and Transformations tabs.  Every operation is one script    *)
(* run: the handler of the widget the user acted on, up to its st.rerun() *)
(* and the render that follows it.                                        *)

\* the most operations of one session
MaxClock == 4

\* what the user types and picks
NameInputs == {<<>>, A, B}
SchemaInputs == {<<>>, <<"s">>}
DescriptionInputs == {<<>>, <<"d">>}
TableTypeInputs == {"Other"}
JobsInputs == {<<<<" ", "J">>, <<" ">>>>}
ColumnDescriptionInputs == {<<>>}
ColumnNameInputs == {<<>>, x}
DataTypeInputs == {<<>>, <<"i">>}
TransformationNameInputs == {<<>>, T}
RuleInputs == {<<>>}

\* the values a multiselect over options returns that the model tries:
\* nothing picked, one option picked, every option picked
Selections(options) ==
    {<<>>, options} \cup {<<options[k]>> : k \in DOMAIN options}

\* the ids "table.column" of the columns of the tables from k on, from column j on
RECURSIVE all_columns(_, _, _)
all_columns(tbls, k, j) ==
    IF k > Len(tbls) THEN <<>>
    ELSE IF j > Len(tbls[k].columns) THEN all_columns(tbls, k + 1, 1)
    ELSE <<Dotted(tbls[k].name, tbls[k].columns[j].name)>> \o all_columns(tbls, k, j + 1)

\* all_available_columns_for_source of the edit form: the same ids, the edited
\* column's own place left out
RECURSIVE all_available_columns_for_source(_, _, _, _, _)
all_available_columns_for_source(tbls, table_index, col_index, k, j) ==
    IF k > Len(tbls) THEN <<>>
    ELSE IF j > Len(tbls[k].columns)
         THEN all_available_columns_for_source(tbls, table_index, col_index, k + 1, 1)
    ELSE (IF k = table_index /\ j = col_index
          THEN <<>>
          ELSE <<Dotted(tbls[k].name, tbls[k].columns[j].name)>>)
         \o all_available_columns_for_source(tbls, table_index, col_index, k, j + 1)

\* the ids of the columns of the tables called name
TableOptions(tbls, name) ==
    all_columns(SelectSeq(tbls, LAMBDA table : table.name = name), 1, 1)

\* input_options / output_options of the mapping form
RECURSIVE MappingOptions(_, _, _)
MappingOptions(tbls, names, n) ==
    IF n > Len(names) THEN <<>>
    ELSE TableOptions(tbls, names[n]) \o MappingOptions(tbls, names, n + 1)

\* the last block of render_tables_tab: an edit request that points at no
\* column is dropped (with a warning) before anything else happens
ColumnToEditValid(sess, tbls) ==
    /\ sess.column_to_edit.table_index \in DOMAIN tbls
    /\ sess.column_to_edit.col_index \in DOMAIN tbls[sess.column_to_edit.table_index].columns

\* the table form at the top of render_tables_tab indexes the list with
\* selected_table_index: past the end of the list the script run stops there
\* with an IndexError, and no widget below it is reached
TableFormRenders(sess, tbls) == sess.selected_table_index \in 0..Len(tbls)

\* likewise the transformation form at the top of render_transformations_tab
TransformationFormRenders(sess, trs) == sess.selected_transformation_index \in 0..Len(trs)

RenderedTablesTab(sess, tbls) ==
    IF /\ TableFormRenders(sess, tbls)
       /\ sess.column_to_edit # NoColumnToEdit
       /\ ~ColumnToEditValid(sess, tbls)
    THEN [sess EXCEPT !.column_to_edit = NoColumnToEdit]
    ELSE sess

\* a catalog built in the two tabs during tick 0: tables A and B with a
\* column each, and a transformation from A to B on which the mapping
\* A.x -> B.x was added twice
SeedTables ==
    update_quality_scores(
        <<WithColumns(Table(A, <<"s">>, <<"d">>, <<<<"J">>>>, "Other", 0),
                      <<Column(x, <<"i">>, <<>>, <<>>)>>),
          WithColumns(Table(B, <<"s">>, <<>>, <<<<"J">>>>, "Other", 0),
                      <<Column(x, <<"i">>, <<>>, <<AX>>)>>)>>)

SeedTransformations ==
    <<Transformation(T, "SQL", <<A>>, <<B>>, <<>>, <<>>,
                     <<ColumnMapping(A, x, B, x, <<>>), ColumnMapping(A, x, B, x, <<>>)>>,
                     <<>>, 0)>>

\* a session starts empty; the model also starts from the catalog above
InitUI ==
    /\ \/ tables = <<>> /\ transformations = <<>> /\ clock = 0
       \/ tables = SeedTables /\ transformations = SeedTransformations /\ clock = 1
    /\ include_columns = FALSE
    /\ focus_entity = None
    /\ graph = EmptyGraph
    /\ phase = "idle"
    /\ session = InitialSession
    /\ event = NoEvent
    /\ document = NoDocument
    /\ results = NoResults

\* what no operation of the two tabs touches; every operation takes one tick
Operation(name) ==
    /\ clock < MaxClock
    /\ clock' = clock + 1
    /\ phase' = name
    /\ UNCHANGED <<include_columns, focus_entity, graph, document, results>>

\* "Create/Update Table"
SubmitTableForm(table_name, table_schema, table_description, table_type, autosys_jobs_input) ==
    /\ Operation("table_form")
    /\ TableFormRenders(session, tables)
    /\ UNCHANGED transformations
    /\ IF ~Truthy(table_name) \/ ~Truthy(table_schema)
       THEN /\ event' = [message |-> "error"]
            /\ UNCHANGED <<tables, session>>
       ELSE LET autosys_jobs == ParsedJobs(autosys_jobs_input)
                i == session.selected_table_index
            IN  IF i # 0
                THEN /\ tables' = [tables EXCEPT ![i] =
                            [@ EXCEPT !.name = table_name, !.schema = table_schema,
                                      !.description = table_description,
                                      !.table_type = table_type,
                                      !.autosys_jobs = autosys_jobs,
                                      !.last_updated = clock]]
                     /\ session' = RenderedTablesTab(
                            [session EXCEPT !.selected_table_index = 0], tables')
                     /\ event' = [message |-> "success", updated |-> i]
                ELSE /\ tables' = Append(tables,
                            Table(table_name, table_schema, table_description,
                                  autosys_jobs, table_type, clock))
                     /\ session' = RenderedTablesTab(session, tables')
                     /\ event' = [message |-> "success", created |-> Len(tables')]

\* "Edit" next to table i
EditTable(i) ==
    /\ Operation("edit_table")
    /\ TableFormRenders(session, tables)
    /\ i \in DOMAIN tables
    /\ session' = RenderedTablesTab([session EXCEPT !.selected_table_index = i], tables)
    /\ event' = NoEvent
    /\ UNCHANGED <<tables, transformations>>

\* "Add Column" in the column form of table i
SubmitColumnForm(i, column_name, column_data_type, column_description, source_columns) ==
    /\ Operation("add_column")
    /\ TableFormRenders(session, tables)
    /\ i \in DOMAIN tables
    /\ UNCHANGED transformations
    /\ IF ~Truthy(column_name) \/ ~Truthy(column_data_type)
       THEN /\ event' = [message |-> "error"]
            /\ UNCHANGED <<tables, session>>
       ELSE /\ tables' = update_quality_scores(
                   [tables EXCEPT ![i].columns =
                       Append(@, Column(column_name, column_data_type,
                                        column_description, source_columns))])
            /\ session' = RenderedTablesTab(session, tables')
            /\ event' = [message |-> "success", table_index |-> i]

\* "Edit" next to column j of table i
EditColumn(i, j) ==
    /\ Operation("edit_column_request")
    /\ TableFormRenders(session, tables)
    /\ i \in DOMAIN tables
    /\ j \in DOMAIN tables[i].columns
    /\ session' = RenderedTablesTab(
           [session EXCEPT !.column_to_edit =
               [table_index |-> i, table_name |-> tables[i].name, col_index |-> j]],
           tables)
    /\ event' = NoEvent
    /\ UNCHANGED <<tables, transformations>>

\* "Update Column" in the edit form, which is shown for a valid request only
SubmitEditColumnForm(new_col_name, new_col_type, new_col_desc, new_sources) ==
    /\ Operation("edit_column")
    /\ TableFormRenders(session, tables)
    /\ session.column_to_edit # NoColumnToEdit
    /\ ColumnToEditValid(session, tables)
    /\ LET table_index == session.column_to_edit.table_index
           col_index == session.column_to_edit.col_index
       IN  /\ tables' = update_quality_scores(
                  [tables EXCEPT ![table_index].columns[col_index] =
                      [@ EXCEPT !.name = new_col_name, !.data_type = new_col_type,
                                !.description = new_col_desc,
                                !.source_columns = new_sources]])
           /\ event' = [message |-> "success", table_index |-> table_index,
                        col_index |-> col_index]
    /\ session' = RenderedTablesTab([session EXCEPT !.column_to_edit = NoColumnToEdit], tables')
    /\ UNCHANGED transformations

\* "Cancel" in the edit form
CancelEditColumn ==
    /\ Operation("cancel_edit_column")
    /\ TableFormRenders(session, tables)
    /\ session.column_to_edit # NoColumnToEdit
    /\ ColumnToEditValid(session, tables)
    /\ session' = RenderedTablesTab([session EXCEPT !.column_to_edit = NoColumnToEdit], tables)
    /\ event' = NoEvent
    /\ UNCHANGED <<tables, transformations>>

\* "Delete" next to column j of table i
DeleteColumn(i, j) ==
    /\ Operation("delete_column")
    /\ TableFormRenders(session, tables)
    /\ i \in DOMAIN tables
    /\ j \in DOMAIN tables[i].columns
    /\ tables' = update_quality_scores([tables EXCEPT ![i].columns = pop(@, j)])
    /\ session' = RenderedTablesTab(session, tables')
    /\ event' = [message |-> "success", table_index |-> i, col_index |-> j]
    /\ UNCHANGED transformations

\* a confirmed "Delete" that also takes the table's name out of the inputs and
\* outputs of every transformation
DeleteTable_Cascading(i) ==
    /\ Operation("delete_table")
    /\ TableFormRenders(session, tables)
    /\ i \in DOMAIN tables
    /\ IF i \in session.confirm_delete_table
       THEN /\ tables' = pop(tables, i)
            /\ transformations' =
                   [k \in DOMAIN transformations |->
                       [transformations[k] EXCEPT
                           !.input_tables = SelectSeq(@, LAMBDA name : name # tables[i].name),
                           !.output_tables = SelectSeq(@, LAMBDA name : name # tables[i].name)]]
            /\ session' = RenderedTablesTab(session, tables')
            /\ event' = [message |-> "success", table_index |-> i]
       ELSE /\ session' = RenderedTablesTab(
                   [session EXCEPT !.confirm_delete_table = @ \cup {i}], tables)
            /\ event' = [message |-> "warning", table_index |-> i]
            /\ UNCHANGED <<tables, transformations>>

\* "Delete" next to table i: the first click sets confirm_delete_table_{i} and
\* warns, a click that finds the key set pops the table and reruns.  The key
\* is never removed, and nothing else of the session or the catalog is touched
DeleteTable(i) ==
    /\ Operation("delete_table")
    /\ TableFormRenders(session, tables)
    /\ i \in DOMAIN tables
    /\ IF i \in session.confirm_delete_table
       THEN /\ tables' = pop(tables, i)
            /\ session' = RenderedTablesTab(session, tables')
            /\ event' = [message |-> "success", table_index |-> i]
       ELSE /\ session' = RenderedTablesTab(
                   [session EXCEPT !.confirm_delete_table = @ \cup {i}], tables)
            /\ event' = [message |-> "warning", table_index |-> i]
            /\ UNCHANGED tables
    /\ UNCHANGED transformations

\* "Create/Update Transformation"
SubmitTransformationForm(transformation_name, transformation_type, input_tables, output_tables, transformation_logic, transformation_description, autosys_jobs_input) ==
    /\ Operation("transformation_form")
    /\ TransformationFormRenders(session, transformations)
    /\ UNCHANGED tables
    /\ IF ~Truthy(transformation_name) \/ ~Truthy(input_tables) \/ ~Truthy(output_tables)
       THEN /\ event' = [message |-> "error"]
            /\ UNCHANGED <<transformations, session>>
       ELSE LET autosys_jobs == ParsedJobs(autosys_jobs_input)
                i == session.selected_transformation_index
            IN  /\ IF i # 0
                   THEN /\ transformations' = [transformations EXCEPT ![i] =
                               [@ EXCEPT !.name = transformation_name,
                                         !.transformation_type = transformation_type,
                                         !.input_tables = input_tables,
                                         !.output_tables = output_tables,
                                         !.logic = transformation_logic,
                                         !.description = transformation_description,
                                         !.autosys_jobs = autosys_jobs]]
                        /\ event' = [message |-> "success", updated |-> i]
                   ELSE /\ transformations' = Append(transformations,
                               Transformation(transformation_name, transformation_type,
                                              input_tables, output_tables,
                                              transformation_logic,
                                              transformation_description,
                                              <<>>, autosys_jobs, clock))
                        /\ event' = [message |-> "success", created |-> Len(transformations')]
                /\ session' = [session EXCEPT !.selected_transformation_index = 0]

\* "Edit" next to transformation i
EditTransformation(i) ==
    /\ Operation("edit_transformation")
    /\ TransformationFormRenders(session, transformations)
    /\ i \in DOMAIN transformations
    /\ session' = [session EXCEPT !.selected_transformation_index = i]
    /\ event' = NoEvent
    /\ UNCHANGED <<tables, transformations>>

\* "Delete" next to transformation i, with the key confirm_delete_trans_{i}
DeleteTransformation(i) ==
    /\ Operation("delete_transformation")
    /\ TransformationFormRenders(session, transformations)
    /\ i \in DOMAIN transformations
    /\ IF i \in session.confirm_delete_trans
       THEN /\ transformations' = pop(transformations, i)
            /\ event' = [message |-> "success", transformation_index |-> i]
            /\ UNCHANGED session
       ELSE /\ session' = [session EXCEPT !.confirm_delete_trans = @ \cup {i}]
            /\ event' = [message |-> "warning", transformation_index |-> i]
            /\ UNCHANGED transformations
    /\ UNCHANGED tables

\* the target column's source list gains source, unless it already holds it
WithSource(tbls, target_table, target_column, source) ==
    [k \in DOMAIN tbls |->
        IF tbls[k].name = target_table
        THEN [tbls[k] EXCEPT !.columns =
                 [j \in DOMAIN tbls[k].columns |->
                     LET column == tbls[k].columns[j]
                     IN  IF column.name = target_column /\ source \notin Range(column.source_columns)
                         THEN [column EXCEPT !.source_columns = Append(@, source)]
                         ELSE column]]
        ELSE tbls[k]]

\* "Add Mapping" in the mapping form of transformation i; an empty option list
\* offers "No columns available", and a picked id must split into two parts
SubmitMappingForm(i, transformation_rule) ==
    /\ Operation("add_mapping")
    /\ TransformationFormRenders(session, transformations)
    /\ i \in DOMAIN transformations
    /\ UNCHANGED session
    /\ LET input_options == MappingOptions(tables, transformations[i].input_tables, 1)
           output_options == MappingOptions(tables, transformations[i].output_tables, 1)
       IN  IF input_options = <<>> \/ output_options = <<>>
           THEN /\ event' = [message |-> "error"]
                /\ UNCHANGED <<tables, transformations>>
           ELSE \E source \in Range(input_options), target \in Range(output_options) :
                   IF Len(split(source, ".")) # 2 \/ Len(split(target, ".")) # 2
                   THEN /\ event' = [message |-> "exception"]
                        /\ UNCHANGED <<tables, transformations>>
                   ELSE LET source_table == split(source, ".")[1]
                            source_column == split(source, ".")[2]
                            target_table == split(target, ".")[1]
                            target_column == split(target, ".")[2]
                            mapping == ColumnMapping(source_table, source_column,
                                                     target_table, target_column,
                                                     transformation_rule)
                        IN  /\ transformations' =
                                   [transformations EXCEPT ![i].column_mappings = Append(@, mapping)]
                            /\ tables' = update_quality_scores(
                                   WithSource(tables, target_table, target_column, source))
                            /\ event' = [message |-> "success", mapping |-> mapping]

\* the mapping's source id stays in the target column's source list
WithoutSource_Kept(tbls, mapping) == tbls

\* the target column's source list loses the mapping's source id, if it holds it
WithoutSource(tbls, mapping) ==
    LET source == Dotted(mapping.source_table, mapping.source_column)
    IN  [k \in DOMAIN tbls |->
            IF tbls[k].name = mapping.target_table
            THEN [tbls[k] EXCEPT !.columns =
                     [j \in DOMAIN tbls[k].columns |->
                         LET column == tbls[k].columns[j]
                         IN  IF column.name = mapping.target_column /\ source \in Range(column.source_columns)
                             THEN [column EXCEPT !.source_columns = remove(@, source)]
                             ELSE column]]
            ELSE tbls[k]]

\* "Delete" next to mapping j of transformation i
DeleteMapping(i, j) ==
    /\ Operation("delete_mapping")
    /\ TransformationFormRenders(session, transformations)
    /\ i \in DOMAIN transformations
    /\ j \in DOMAIN transformations[i].column_mappings
    /\ transformations' = [transformations EXCEPT ![i].column_mappings = pop(@, j)]
    /\ tables' = update_quality_scores(
           WithoutSource(tables, transformations[i].column_mappings[j]))
    /\ event' = [message |-> "success", transformation_index |-> i, mapping_index |-> j,
                 mapping |-> transformations[i].column_mappings[j]]
    /\ UNCHANGED session

NextUI ==
    \/ \E table_name \in NameInputs, table_schema \in SchemaInputs,
          table_description \in DescriptionInputs, table_type \in TableTypeInputs,
          autosys_jobs_input \in JobsInputs :
          SubmitTableForm(table_name, table_schema, table_description, table_type,
                          autosys_jobs_input)
    \/ \E i \in DOMAIN tables : EditTable(i)
    \/ \E i \in DOMAIN tables, column_name \in ColumnNameInputs,
          column_data_type \in DataTypeInputs, column_description \in ColumnDescriptionInputs,
          source_columns \in Selections(all_columns(tables, 1, 1)) :
          SubmitColumnForm(i, column_name, column_data_type, column_description, source_columns)
    \/ \E i \in DOMAIN tables : \E j \in DOMAIN tables[i].columns : EditColumn(i, j)
    \/ \E new_col_name \in ColumnNameInputs, new_col_type \in DataTypeInputs,
          new_col_desc \in ColumnDescriptionInputs,
          new_sources \in Selections(all_available_columns_for_source(
                              tables, session.column_to_edit.table_index,
                              session.column_to_edit.col_index, 1, 1)) :
          SubmitEditColumnForm(new_col_name, new_col_type, new_col_desc, new_sources)
    \/ CancelEditColumn
    \/ \E i \in DOMAIN tables : \E j \in DOMAIN tables[i].columns : DeleteColumn(i, j)
    \/ \E transformation_name \in TransformationNameInputs,
          input_tables \in Selections([k \in DOMAIN tables |-> tables[k].name]),
          output_tables \in Selections([k \in DOMAIN tables |-> tables[k].name]) :
          SubmitTransformationForm(transformation_name, "SQL", input_tables, output_tables,
                                   <<>>, <<>>, <<>>)
    \/ \E i \in DOMAIN transformations : EditTransformation(i)
    \/ \E i \in DOMAIN transformations, transformation_rule \in RuleInputs :
          SubmitMappingForm(i, transformation_rule)
    \/ \E i \in DOMAIN transformations :
          \E j \in DOMAIN transformations[i].column_mappings : DeleteMapping(i, j)

SpecUI == InitUI /\ [][NextUI]_vars

-----------------------------------------------------------------------------
(* The Edit and Delete buttons of the two tabs and the forms they open,    *)
(* on a catalog whose table A has two columns.                             *)

\* the catalog above after "Add Column" y on A
EditedTables ==
    update_quality_scores(
        [SeedTables EXCEPT ![1].columns = Append(@, Column(y, <<"i">>, <<>>, <<>>))])

InitEdit ==
    /\ tables = EditedTables
    /\ transformations = SeedTransformations
    /\ clock = 1
    /\ include_columns = FALSE
    /\ focus_entity = None
    /\ graph = EmptyGraph
    /\ phase = "idle"
    /\ session = InitialSession
    /\ event = NoEvent
    /\ document = NoDocument
    /\ results = NoResults

NextEdit ==
    \/ \E i \in DOMAIN tables : EditTable(i)
    \/ \E table_name \in NameInputs, table_schema \in SchemaInputs,
          table_description \in DescriptionInputs, table_type \in TableTypeInputs,
          autosys_jobs_input \in JobsInputs :
          SubmitTableForm(table_name, table_schema, table_description, table_type,
                          autosys_jobs_input)
    \/ \E i \in DOMAIN tables : DeleteTable(i)
    \/ \E i \in DOMAIN tables : \E j \in DOMAIN tables[i].columns : EditColumn(i, j)
    \/ \E new_col_name \in ColumnNameInputs, new_col_type \in DataTypeInputs,
          new_col_desc \in ColumnDescriptionInputs,
          new_sources \in Selections(all_available_columns_for_source(
                              tables, session.column_to_edit.table_index,
                              session.column_to_edit.col_index, 1, 1)) :
          SubmitEditColumnForm(new_col_name, new_col_type, new_col_desc, new_sources)
    \/ CancelEditColumn
    \/ \E i \in DOMAIN tables : \E j \in DOMAIN tables[i].columns : DeleteColumn(i, j)
    \/ \E i \in DOMAIN transformations : EditTransformation(i)
    \/ \E transformation_name \in TransformationNameInputs,
          input_tables \in Selections([k \in DOMAIN tables |-> tables[k].name]),
          output_tables \in Selections([k \in DOMAIN tables |-> tables[k].name]) :
          SubmitTransformationForm(transformation_name, "SQL", input_tables, output_tables,
                                   <<>>, <<>>, <<>>)
    \/ \E i \in DOMAIN transformations : DeleteTransformation(i)

SpecEdit == InitEdit /\ [][NextEdit]_vars

-----------------------------------------------------------------------------
(* export_data and import_data.  A JSON object is a function from its keys,*)
(* so that a key can be absent; document is the file at the path.          *)

\* col.__dict__
ExportedColumn(column) ==
    [name |-> column.name, data_type |-> column.data_type,
     description |-> column.description, source_columns |-> column.source_columns,
     quality_score |-> column.quality_score]

\* {**table.__dict__, "columns": [col.__dict__ for col in table.columns]}
ExportedTable(table) ==
    [name |-> table.name, schema |-> table.schema, description |-> table.description,
     table_type |-> table.table_type, autosys_jobs |-> table.autosys_jobs,
     columns |-> [j \in DOMAIN table.columns |-> ExportedColumn(table.columns[j])],
     quality_score |-> table.quality_score, last_updated |-> table.last_updated]

\* mapping.__dict__
ExportedMapping(mapping) ==
    [source_table |-> mapping.source_table, source_column |-> mapping.source_column,
     target_table |-> mapping.target_table, target_column |-> mapping.target_column,
     transformation_rule |-> mapping.transformation_rule]

\* {**transformation.__dict__, "column_mappings": [mapping.__dict__ ...]}
ExportedTransformation(transformation) ==
    [name |-> transformation.name,
     transformation_type |-> transformation.transformation_type,
     input_tables |-> transformation.input_tables,
     output_tables |-> transformation.output_tables,
     logic |-> transformation.logic, description |-> transformation.description,
     column_mappings |-> [j \in DOMAIN transformation.column_mappings |->
                             ExportedMapping(transformation.column_mappings[j])],
     autosys_jobs |-> transformation.autosys_jobs,
     created_date |-> transformation.created_date]

\* the file json.dump writes
ExportedDocument(tbls, trs) ==
    [exists |-> TRUE, wellformed |-> TRUE,
     data |-> [tables |-> [k \in DOMAIN tbls |-> ExportedTable(tbls[k])],
               transformations |-> [k \in DOMAIN trs |-> ExportedTransformation(trs[k])]]]

\* dict.get(key, default)
get(dict, key, default) == IF key \in DOMAIN dict THEN dict[key] ELSE default

\* the lookups dict[key] of the keys all succeed
HasKeys(dict, keys) == keys \subseteq DOMAIN dict

ColumnKeys == {"name", "data_type", "description"}
TableKeys == {"name", "schema", "description"}
MappingKeys == {"source_table", "source_column", "target_table", "target_column"}
TransformationKeys ==
    {"name", "transformation_type", "input_tables", "output_tables", "logic", "description"}

\* the column built from col_data, which has the keys
ImportedColumn(col_data) ==
    LET column == Column(col_data.name, col_data.data_type, col_data.description,
                         get(col_data, "source_columns", <<>>))
    IN  IF "quality_score" \in DOMAIN col_data
        THEN [column EXCEPT !.quality_score = col_data.quality_score]
        ELSE column

\* no lookup raises KeyError while the table is built from table_data
TableParses(table_data) ==
    /\ HasKeys(table_data, TableKeys)
    /\ \A j \in DOMAIN get(table_data, "columns", <<>>) :
          HasKeys(table_data.columns[j], ColumnKeys)

\* the table built from table_data at the time now
ImportedTable(table_data, now) ==
    LET table == Table(table_data.name, table_data.schema, table_data.description,
                       get(table_data, "autosys_jobs", <<>>),
                       get(table_data, "table_type", "Other"), now)
        col_datas == get(table_data, "columns", <<>>)
    IN  [table EXCEPT
            !.quality_score = get(table_data, "quality_score", @),
            !.last_updated = get(table_data, "last_updated", @),
            !.columns = [j \in DOMAIN col_datas |-> ImportedColumn(col_datas[j])]]

ImportedMapping(mapping_data) ==
    ColumnMapping(mapping_data.source_table, mapping_data.source_column,
                  mapping_data.target_table, mapping_data.target_column,
                  get(mapping_data, "transformation_rule", <<>>))

\* no lookup raises KeyError while the transformation is built from trans_data
TransformationParses(trans_data) ==
    /\ HasKeys(trans_data, TransformationKeys)
    /\ \A j \in DOMAIN get(trans_data, "column_mappings", <<>>) :
          HasKeys(trans_data.column_mappings[j], MappingKeys)

\* the transformation built from trans_data at the time now
ImportedTransformation(trans_data, now) ==
    LET mapping_datas == get(trans_data, "column_mappings", <<>>)
    IN  Transformation(trans_data.name, trans_data.transformation_type,
                       trans_data.input_tables, trans_data.output_tables,
                       trans_data.logic, trans_data.description,
                       [j \in DOMAIN mapping_datas |-> ImportedMapping(mapping_datas[j])],
                       get(trans_data, "autosys_jobs", <<>>), now)

\* an import that installs the tables as soon as they are built
import_data_TablesFirst(doc, tbls, trs, now) ==
    IF ~doc.exists \/ ~doc.wellformed
    THEN [message |-> "error", tables |-> tbls, transformations |-> trs]
    ELSE LET table_datas == get(doc.data, "tables", <<>>)
             trans_datas == get(doc.data, "transformations", <<>>)
         IN  IF \E k \in DOMAIN table_datas : ~TableParses(table_datas[k])
             THEN [message |-> "error", tables |-> tbls, transformations |-> trs]
             ELSE IF \E k \in DOMAIN trans_datas : ~TransformationParses(trans_datas[k])
             THEN [message |-> "error",
                   tables |-> [k \in DOMAIN table_datas |-> ImportedTable(table_datas[k], now)],
                   transformations |-> trs]
             ELSE [message |-> "success",
                   tables |-> [k \in DOMAIN table_datas |-> ImportedTable(table_datas[k], now)],
                   transformations |->
                       [k \in DOMAIN trans_datas |-> ImportedTransformation(trans_datas[k], now)]]

\* import_data: the message shown and the catalog left in the session.  The
\* file is missing (FileNotFoundError), is not JSON (JSONDecodeError), or is
\* read into the local lists tables and transformations, a missing key
\* raising KeyError; the session is assigned after the last record only.
import_data(doc, tbls, trs, now) ==
    IF ~doc.exists \/ ~doc.wellformed
    THEN [message |-> "error", tables |-> tbls, transformations |-> trs]
    ELSE LET table_datas == get(doc.data, "tables", <<>>)
             trans_datas == get(doc.data, "transformations", <<>>)
         IN  IF \/ \E k \in DOMAIN table_datas : ~TableParses(table_datas[k])
                \/ \E k \in DOMAIN trans_datas : ~TransformationParses(trans_datas[k])
             THEN [message |-> "error", tables |-> tbls, transformations |-> trs]
             ELSE [message |-> "success",
                   tables |-> [k \in DOMAIN table_datas |-> ImportedTable(table_datas[k], now)],
                   transformations |->
                       [k \in DOMAIN trans_datas |-> ImportedTransformation(trans_datas[k], now)]]

\* the most records of a kind in a document that was not exported by the session
MaxRecords == 2

\* dict without the keys
Drop(dict, keys) == [key \in DOMAIN dict \ keys |-> dict[key]]

\* the key sets left out of a record: none, any one key, every optional key
Drops(dict, required) ==
    {{}, DOMAIN dict \ required} \cup {{key} : key \in DOMAIN dict}

FullTableData == ExportedTable(SeedTables[2])
FullTransformationData == ExportedTransformation(SeedTransformations[1])

TableDatas ==
    {Drop(FullTableData, keys) : keys \in Drops(FullTableData, TableKeys)} \cup
    {[FullTableData EXCEPT !.columns = <<Drop(@[1], keys)>>] :
        keys \in Drops(FullTableData.columns[1], ColumnKeys)}

TransformationDatas ==
    {Drop(FullTransformationData, keys) :
        keys \in Drops(FullTransformationData, TransformationKeys)} \cup
    {[FullTransformationData EXCEPT !.column_mappings = <<Drop(@[1], keys), @[2]>>] :
        keys \in Drops(FullTransformationData.column_mappings[1], MappingKeys)}

\* the files found at the path: none, one that is not JSON, and documents in
\* which records of one kind lack keys
Documents ==
    {NoDocument, [exists |-> TRUE, wellformed |-> FALSE]} \cup
    {[exists |-> TRUE, wellformed |-> TRUE, data |-> data] :
        data \in
            {[tables |-> tds, transformations |-> trds] :
                tds \in SeqsUpTo(TableDatas, MaxRecords),
                trds \in {<<>>, <<FullTransformationData>>}} \cup
            {[tables |-> tds, transformations |-> trds] :
                tds \in {<<>>, <<FullTableData>>},
                trds \in SeqsUpTo(TransformationDatas, MaxRecords)} \cup
            {[tables |-> <<FullTableData>>], [transformations |-> <<FullTransformationData>>]}}

InitIO ==
    /\ \/ tables = <<>> /\ transformations = <<>>
       \/ tables = SeedTables /\ transformations = SeedTransformations
    /\ document \in Documents
    /\ clock = 1
    /\ include_columns = FALSE
    /\ focus_entity = None
    /\ graph = EmptyGraph
    /\ phase = "idle"
    /\ session = InitialSession
    /\ event = NoEvent
    /\ results = NoResults

\* what the Import/Export tab does not touch; every operation takes one tick
FileOperation(name) ==
    /\ clock < MaxClock
    /\ clock' = clock + 1
    /\ phase' = name
    /\ UNCHANGED <<include_columns, focus_entity, graph, session, results>>

\* "Export Data": offered when there are tables; the file is written, or
\* opening it fails
ExportData(written) ==
    /\ FileOperation("export")
    /\ tables # <<>>
    /\ IF written
       THEN /\ document' = ExportedDocument(tables, transformations)
            /\ event' = [message |-> "success"]
       ELSE /\ event' = [message |-> "error"]
            /\ UNCHANGED document
    /\ UNCHANGED <<tables, transformations>>

\* "Import Data"
ImportData ==
    /\ FileOperation("import")
    /\ LET outcome == import_data(document, tables, transformations, clock)
       IN  /\ tables' = outcome.tables
           /\ transformations' = outcome.transformations
           /\ event' = [message |-> outcome.message]
    /\ UNCHANGED document

NextIO ==
    \/ \E written \in BOOLEAN : ExportData(written)
    \/ ImportData

SpecIO == InitIO /\ [][NextIO]_vars

-----------------------------------------------------------------------------
(* search_lineage and the Search tab *)

UpperCase == <<"A", "B", "C", "D", "E", "F", "G", "H", "I", "J", "K", "L", "M", "N", "O", "P", "Q", "R", "S", "T", "U", "V", "W", "X", "Y", "Z">>
LowerCase == <<"a", "b", "c", "d", "e", "f", "g", "h", "i", "j", "k", "l", "m", "n", "o", "p", "q", "r", "s", "t", "u", "v", "w", "x", "y", "z">>

\* text.lower(), for text in the Latin alphabet
lower(text) ==
    [k \in DOMAIN text |->
        IF \E n \in DOMAIN UpperCase : UpperCase[n] = text[k]
        THEN LowerCase[CHOOSE n \in DOMAIN UpperCase : UpperCase[n] = text[k]]
        ELSE text[k]]

\* sub in text
Contains(sub, text) ==
    \E i \in 0..(Len(text) - Len(sub)) : SubSeq(text, i + 1, i + Len(sub)) = sub

\* a job match that compares the job name as it is written
autosys_match_CaseSensitive(query, autosys_jobs) ==
    \E k \in DOMAIN autosys_jobs : Contains(query, autosys_jobs[k])

\* any(query in job.lower() for job in autosys_jobs)
autosys_match(query, autosys_jobs) ==
    \E k \in DOMAIN autosys_jobs : Contains(query, lower(autosys_jobs[k]))

\* the test on a table, query being in lower case
TableMatches(query, table) ==
    \/ Contains(query, lower(table.name))
    \/ Contains(query, lower(table.description))
    \/ Contains(query, lower(table.schema))
    \/ Contains(query, lower(table.table_type))
    \/ autosys_match(query, table.autosys_jobs)

ColumnMatches(query, column) ==
    \/ Contains(query, lower(column.name))
    \/ Contains(query, lower(column.description))
    \/ Contains(query, lower(column.data_type))

TransformationMatches(query, transformation) ==
    \/ Contains(query, lower(transformation.name))
    \/ Contains(query, lower(transformation.description))
    \/ Contains(query, lower(transformation.logic))
    \/ autosys_match(query, transformation.autosys_jobs)

TableResult(table) ==
    [name |-> table.name, schema |-> table.schema, description |-> table.description,
     table_type |-> table.table_type, type |-> "table"]

ColumnResult(table, column) ==
    [name |-> Dotted(table.name, column.name), data_type |-> column.data_type,
     description |-> column.description, table |-> table.name, type |-> "column"]

TransformationResult(transformation) ==
    [name |-> transformation.name, type |-> transformation.transformation_type,
     description |-> transformation.description,
     input_tables |-> transformation.input_tables,
     output_tables |-> transformation.output_tables]

\* "for column in table.columns", from column j on
RECURSIVE SearchColumns(_, _, _, _)
SearchColumns(found, query, table, j) ==
    IF j > Len(table.columns) THEN found
    ELSE SearchColumns(
             IF ColumnMatches(query, table.columns[j])
             THEN [found EXCEPT !.columns = Append(@, ColumnResult(table, table.columns[j]))]
             ELSE found,
             query, table, j + 1)

\* one iteration of "for table in tables" that looks at the columns of the
\* tables that matched only
SearchTable_ColumnsOfMatches(found, query, table) ==
    IF TableMatches(query, table)
    THEN SearchColumns([found EXCEPT !.tables = Append(@, TableResult(table))], query, table, 1)
    ELSE found

\* one iteration of "for table in tables"
SearchTable(found, query, table) ==
    SearchColumns(
        IF TableMatches(query, table)
        THEN [found EXCEPT !.tables = Append(@, TableResult(table))]
        ELSE found,
        query, table, 1)

RECURSIVE SearchTables(_, _, _, _)
SearchTables(found, query, tbls, k) ==
    IF k > Len(tbls) THEN found
    ELSE SearchTables(SearchTable(found, query, tbls[k]), query, tbls, k + 1)

\* "for transformation in transformations", from transformation k on
RECURSIVE SearchTransformations(_, _, _, _)
SearchTransformations(found, query, trs, k) ==
    IF k > Len(trs) THEN found
    ELSE SearchTransformations(
             IF TransformationMatches(query, trs[k])
             THEN [found EXCEPT !.transformations = Append(@, TransformationResult(trs[k]))]
             ELSE found,
             query, trs, k + 1)

search_lineage(query, tbls, trs) ==
    SearchTransformations(SearchTables(NoResults, lower(query), tbls, 1), lower(query), trs, 1)

\* the most tables, and the most transformations, of a searched catalog
MaxSearched == 2

Job == <<"J", "o", "b">>

\* the searched tables: a job name is the only place where "job" occurs on
\* the first and the third; the second has it nowhere but in a column
SearchedTables ==
    { WithColumns(Table(A, <<"s">>, <<>>, <<Job>>, <<"H", "I", "V", "E">>, 0),
                  <<Column(C, <<"I", "n", "t">>, <<>>, <<>>)>>),
      WithColumns(Table(<<"b">>, <<"s">>, <<"J", "o">>, <<>>, <<"O", "t", "h", "e", "r">>, 0),
                  <<Column(<<"J">>, <<"s", "t", "r">>, <<"o", "b">>, <<>>)>>),
      WithColumns(Table(A, <<"s">>, <<>>, <<x, <<"j", "O", "B">>>>, <<"O", "t", "h", "e", "r">>, 0),
                  <<Column(C, <<"I", "n", "t">>, <<>>, <<>>),
                    Column(<<"J">>, <<"s", "t", "r">>, <<"o", "b">>, <<>>)>>),
      Table(<<"o", "B">>, <<"s">>, <<>>, <<>>, <<"H", "I", "V", "E">>, 0) }

SearchedTransformations ==
    { Transformation(T, "SQL", <<A>>, <<B>>, <<>>, <<>>, <<>>, <<Job>>, 0),
      Transformation(U, "ETL", <<A>>, <<B>>, <<"s", "e", "t", " ", "B">>, <<"J", "o">>, <<>>, <<>>, 0),
      Transformation(T, "SQL", <<A>>, <<B>>, <<"j", "O", "b">>, <<>>, <<>>, <<>>, 0) }

\* what the user types in the search box
Queries ==
    { <<>>, <<"j", "O", "B">>, <<"J", "O">>, <<"o", "b">>, <<"B">>, <<"h", "i", "v", "e">>,
      <<"z">>, <<"i", "n", "t">>, <<"j", "o", "b", "s">> }

InitSearch ==
    /\ tables \in SeqsUpTo(SearchedTables, MaxSearched)
    /\ transformations \in SeqsUpTo(SearchedTransformations, MaxSearched)
    /\ include_columns = FALSE
    /\ focus_entity = None
    /\ graph = EmptyGraph
    /\ phase = "idle"
    /\ clock = 0
    /\ session = InitialSession
    /\ event = NoEvent
    /\ document = NoDocument
    /\ results = NoResults

\* render_search_tab with search_query in the box: an empty box asks for a
\* search term, anything else is searched for
Search(search_query) ==
    /\ phase' = "search"
    /\ IF Truthy(search_query)
       THEN /\ results' = search_lineage(search_query, tables, transformations)
            /\ event' = [message |-> "results", search_query |-> search_query]
       ELSE /\ results' = NoResults
            /\ event' = [message |-> "info", search_query |-> search_query]
    /\ UNCHANGED <<tables, transformations, include_columns, focus_entity, graph, clock, session, document>>

NextSearch == \E search_query \in Queries : Search(search_query)

SpecSearch == InitSearch /\ [][NextSearch]_vars

-----------------------------------------------------------------------------
(* From a search result to the Lineage Graph tab.  include_columns and     *)
(* focus_entity are the values of the tab's two widgets, "Show             *)
(* Column-level Lineage" and "Focus on Entity"; session.focus_entity is    *)
(* st.session_state.focus_entity.                                          *)

\* the most tables, and the most transformations, of a catalog shown from a search
MaxFocused == 1

InitFocus ==
    /\ tables \in SeqsUpTo(SearchedTables, MaxFocused)
    /\ transformations \in SeqsUpTo(SearchedTransformations, MaxFocused)
    /\ include_columns = FALSE
    /\ focus_entity = None
    /\ graph = EmptyGraph
    /\ phase = "idle"
    /\ clock = 0
    /\ session = InitialSession
    /\ event = NoEvent
    /\ document = NoDocument
    /\ results = NoResults

\* a table type is spelled out where it is searched and named where its
\* colour is looked up
TypeName(text) ==
    CASE text = <<"H", "I", "V", "E">> -> "HIVE"
      [] text = <<"O", "t", "h", "e", "r">> -> "Other"

Named(tbls) == [k \in DOMAIN tbls |-> [tbls[k] EXCEPT !.table_type = TypeName(@)]]

\* focus_options without "Show All"
FocusOptions(tbls, inc) ==
    {tbls[k].name : k \in DOMAIN tbls} \cup
    (IF inc THEN Range(all_columns(tbls, 1, 1)) ELSE {})

\* the tab draws its widgets and a graph when there are tables and transformations
GraphShown == Truthy(tables) /\ Truthy(transformations)

\* the Lineage Graph tab is the active tab
OnGraphTab == phase \in {"show_in_graph", "view", "export_graph"}

\* "Show in Graph" next to result n of the kind tables, columns or
\* transformations, and the run of the Lineage Graph tab that follows: the
\* widgets are new and hold their defaults
ShowInGraph(kind, n) ==
    /\ phase = "search"
    /\ event.message = "results"
    /\ n \in DOMAIN results[kind]
    /\ session' = [session EXCEPT !.focus_entity =
                       IF kind = "transformations" THEN None ELSE results[kind][n].name]
    /\ phase' = "show_in_graph"
    /\ include_columns' = FALSE
    /\ focus_entity' = None
    /\ IF GraphShown
       THEN /\ graph' = create_lineage_graph(Named(tables), transformations,
                                             include_columns', focus_entity')
            /\ event' = [message |-> "graph", kind |-> kind]
       ELSE /\ event' = [message |-> "info", kind |-> kind]
            /\ UNCHANGED graph
    /\ UNCHANGED <<tables, transformations, clock, document, results>>

\* the user sets the two widgets of the tab
SelectView(inc, focus) ==
    /\ OnGraphTab
    /\ GraphShown
    /\ focus \in {None} \cup FocusOptions(tables, inc)
    /\ include_columns' = inc
    /\ focus_entity' = focus
    /\ graph' = create_lineage_graph(Named(tables), transformations, inc, focus)
    /\ phase' = "view"
    /\ event' = [message |-> "graph"]
    /\ UNCHANGED <<tables, transformations, clock, session, document, results>>

\* "Export Graph": the exported graph is built from the session keys
\* "include_columns" and "focus_entity"; the tab then draws its graph as before
ExportGraph ==
    /\ OnGraphTab
    /\ GraphShown
    /\ phase' = "export_graph"
    /\ event' = [message |-> "success",
                 include_columns |-> get(session, "include_columns", FALSE),
                 focus_entity |-> get(session, "focus_entity", None),
                 graph |-> create_lineage_graph(Named(tables), transformations,
                                                get(session, "include_columns", FALSE),
                                                get(session, "focus_entity", None))]
    /\ graph' = create_lineage_graph(Named(tables), transformations,
                                     include_columns, focus_entity)
    /\ UNCHANGED <<tables, transformations, include_columns, focus_entity, clock, session,
                   document, results>>

NextFocus ==
    \/ \E search_query \in Queries : Search(search_query)
    \/ \E kind \in {"tables", "columns", "transformations"} :
          \E n \in DOMAIN results[kind] : ShowInGraph(kind, n)
    \/ \E inc \in BOOLEAN : \E focus \in {None} \cup FocusOptions(tables, inc) :
          SelectView(inc, focus)
    \/ ExportGraph

SpecFocus == InitFocus /\ [][NextFocus]_vars

-----------------------------------------------------------------------------
(* Reading the catalog and the built graph *)

Built == phase = "built"

Nodes == DOMAIN graph.nodes
Edges == DOMAIN graph.edges

TableNames == {tables[k].name : k \in DOMAIN tables}

HasAttr(attrs, a) == a \in DOMAIN attrs

\* the node n carries the shape s
HasShape(n, s) == HasAttr(graph.nodes[n], "shape") /\ graph.nodes[n].shape = s

\* the transformations that have input i and output o
Producers(i, o) ==
    {k \in DOMAIN transformations :
        i \in Range(transformations[k].input_tables) /\
        o \in Range(transformations[k].output_tables)}

\* the tables the focus keeps: no focus, the table's name, or one of its column ids
Kept(k) ==
    \/ focus_entity = None
    \/ focus_entity = tables[k].name
    \/ \E j \in DOMAIN tables[k].columns :
          focus_entity = Dotted(tables[k].name, tables[k].columns[j].name)

KeptTables == {k \in DOMAIN tables : Kept(k)}

KeptNames == {tables[k].name : k \in KeptTables}

ColumnIds(k) == {Dotted(tables[k].name, tables[k].columns[j].name) : j \in DOMAIN tables[k].columns}

KeptColumnIds == UNION {ColumnIds(k) : k \in KeptTables}

\* the edges table -> "table.column" of the kept tables
ContainmentEdges == UNION {{<<tables[k].name, c>> : c \in ColumnIds(k)} : k \in KeptTables}

TransformationNames == {transformations[k].name : k \in DOMAIN transformations}

\* the ids that are nodes when the builder reaches the edges of transformation k
\* in column-level mode: the kept tables, their columns, and the transformations
\* up to k
NodesAt(k) == KeptNames \cup KeptColumnIds \cup {transformations[i].name : i \in 1..k}

SourceId(m) == Dotted(m.source_table, m.source_column)
TargetId(m) == Dotted(m.target_table, m.target_column)

\* the mappings of transformation k whose two column ids are both nodes by then
VisibleMappings(k) ==
    {j \in DOMAIN transformations[k].column_mappings :
        LET m == transformations[k].column_mappings[j]
        IN  SourceId(m) \in NodesAt(k) /\ TargetId(m) \in NodesAt(k)}

MappingEdges ==
    UNION {UNION {{<<SourceId(transformations[k].column_mappings[j]), transformations[k].name>>,
                   <<transformations[k].name, TargetId(transformations[k].column_mappings[j])>>}
                  : j \in VisibleMappings(k)}
           : k \in DOMAIN transformations}

\* the edges of the transformations without column mappings, to the ids that
\* are nodes by then
FallbackEdges ==
    UNION {IF transformations[k].column_mappings = <<>>
           THEN {<<i, transformations[k].name>> :
                    i \in Range(transformations[k].input_tables) \cap NodesAt(k)}
                \cup
                {<<transformations[k].name, o>> :
                    o \in Range(transformations[k].output_tables) \cap NodesAt(k)}
           ELSE {}
           : k \in DOMAIN transformations}

-----------------------------------------------------------------------------
(* C1: in table-level mode without focus the nodes of the graph are        *)
(* exactly the table names, each a box and none of them made for a         *)
(* transformation, and the edges are exactly the pairs (i, o) of table     *)
(* names that some transformation has as input and output, each labelled   *)
(* with the name of such a transformation.                                 *)
C1_TableLevelGraph ==
    (Built /\ ~include_columns /\ focus_entity = None) =>
        /\ Nodes = TableNames
        /\ \A n \in Nodes : HasShape(n, "box")
        /\ Edges = {e \in TableNames \X TableNames : Producers(e[1], e[2]) # {}}
        /\ \A e \in Edges :
              /\ HasAttr(graph.edges[e], "label")
              /\ \E k \in Producers(e[1], e[2]) :
                    graph.edges[e].label = transformations[k].name

\* C1's case: tables A, B, C and one transformation from A and B to C give
\* exactly the edges A -> C and B -> C, labelled with its name.
C1_Witness ==
    /\ Built /\ ~include_columns /\ focus_entity = None
    /\ Len(tables) = 3 /\ TableNames = {A, B, C}
    /\ Len(transformations) = 1
    /\ transformations[1].input_tables = <<A, B>>
    /\ transformations[1].output_tables = <<C>>
    /\ Edges = {<<A, C>>, <<B, C>>}
    /\ graph.edges[<<A, C>>].label = T
    /\ graph.edges[<<B, C>>].label = T

-----------------------------------------------------------------------------
(* C2: in column-level mode the two edges of a column mapping, source id   *)
(* -> transformation and transformation -> target id, are in the graph     *)
(* whenever both ids are nodes when the mapping is reached; a mapping with *)
(* a missing endpoint adds nothing, so every edge of the graph is a        *)
(* containment edge, an edge of a mapping with both endpoints, or an edge  *)
(* of a transformation without mappings.                                   *)
C2_MappingEdges ==
    (Built /\ include_columns) =>
        /\ MappingEdges \subseteq Edges
        /\ Edges \subseteq (ContainmentEdges \cup MappingEdges \cup FallbackEdges)

\* C2's case: a mapping whose source column is a node and whose target column
\* is not (and one the other way round) left no edge at its transformation.
C2_Witness ==
    /\ Built /\ include_columns
    /\ \E k \in DOMAIN transformations :
         /\ Len(transformations[k].column_mappings) = 1
         /\ LET m == transformations[k].column_mappings[1]
            IN  /\ SourceId(m) \in Nodes
                /\ TargetId(m) \notin Nodes
                /\ <<SourceId(m), transformations[k].name>> \notin Edges
                /\ \A e \in Edges : e[1] # transformations[k].name

-----------------------------------------------------------------------------
\* the catalog of C3: A with column x, B with column y, T mapping A.x -> B.y
C3_Catalog ==
    /\ Len(tables) = 2
    /\ tables[1].name = A /\ Len(tables[1].columns) = 1 /\ tables[1].columns[1].name = x
    /\ tables[2].name = B /\ Len(tables[2].columns) = 1 /\ tables[2].columns[1].name = y
    /\ Len(transformations) = 1
    /\ transformations[1].name = T
    /\ Len(transformations[1].column_mappings) = 1
    /\ SourceId(transformations[1].column_mappings[1]) = AX
    /\ TargetId(transformations[1].column_mappings[1]) = Dotted(B, y)

C3_FocusOnTable == Built /\ include_columns /\ focus_entity = A /\ C3_Catalog

(* C3, as claimed: with tables A (column x) and B (column y) and T mapping *)
(* A.x -> B.y, the column-level graph focused on "A" has the single node A *)
(* and no edge.                                                            *)
C3_OnlyNodeA ==
    C3_FocusOnTable => (Nodes = {A} /\ Edges = {})

(* C3, amended: that graph has the nodes A, A.x and T and the single       *)
(* containment edge A -> A.x; B and B.y are left out and the mapping adds  *)
(* no edge.                                                                *)
C3_FocusKeepsColumnsAndTransformation ==
    C3_FocusOnTable =>
        /\ Nodes = {A, AX, T}
        /\ Edges = {<<A, AX>>}
        /\ HasShape(A, "box") /\ HasShape(AX, "ellipse") /\ HasShape(T, "diamond")

\* C3's case: the focused build of that catalog has run.
C3_Witness == C3_FocusOnTable /\ B \notin Nodes /\ Dotted(B, y) \notin Nodes

-----------------------------------------------------------------------------
\* the (transformation, input, output) triples whose two tables are nodes
EdgeTriples ==
    {tr \in (DOMAIN transformations) \X Nodes \X Nodes :
        tr[1] \in Producers(tr[2], tr[3])}

DistinctTransformationNames ==
    \A i, j \in DOMAIN transformations : i # j => transformations[i].name # transformations[j].name

(* C4, as claimed: in table-level mode the graph keeps one edge for every  *)
(* (transformation, input, output) triple whose two tables are nodes, so   *)
(* two transformations from A to B give two edges A -> B, one labelled     *)
(* with each name.  A DiGraph holds one edge per pair of nodes: the edge   *)
(* count is the number of triples only if no pair is produced twice, and   *)
(* the edge carries the label of the last transformation alone.            *)
C4_ParallelEdges ==
    (Built /\ ~include_columns /\ DistinctTransformationNames) =>
        /\ Cardinality(Edges) = Cardinality(EdgeTriples)
        /\ \A tr \in EdgeTriples :
              /\ <<tr[2], tr[3]>> \in Edges
              /\ graph.edges[<<tr[2], tr[3]>>].label = transformations[tr[1]].name

-----------------------------------------------------------------------------
-----------------------------------------------------------------------------
(* C6, as claimed: in column-level mode every column of every kept table   *)
(* has a node "table.column" of shape ellipse and a containment edge from  *)
(* its table; in table-level mode there is no column node and no           *)
(* containment edge (every edge is a labelled lineage edge).               *)
C6_ColumnNodes ==
    Built =>
        /\ include_columns =>
              \A k \in KeptTables : \A c \in ColumnIds(k) :
                  /\ c \in Nodes
                  /\ HasShape(c, "ellipse")
                  /\ <<tables[k].name, c>> \in Edges
        /\ ~include_columns =>
              /\ \A n \in Nodes : ~HasShape(n, "ellipse")
              /\ \A e \in Edges : HasAttr(graph.edges[e], "label")

-----------------------------------------------------------------------------
\* no other transformation, no table and no kept column has the id of transformation k
OwnName(k) ==
    /\ \A i \in DOMAIN transformations : i # k => transformations[i].name # transformations[k].name
    /\ transformations[k].name \notin TableNames \cup KeptColumnIds

(* C7, as claimed: in column-level mode a transformation without column    *)
(* mappings has an edge from exactly those of its input tables that are    *)
(* table nodes and to exactly those of its output tables that are table    *)
(* nodes; a transformation with a column mapping has no edge from or to a  *)
(* table.  Stated for the transformations whose name no other entity       *)
(* shares, so that the edges at the node are the transformation's own.     *)
C7_Fallback ==
    (Built /\ include_columns) =>
        \A k \in DOMAIN transformations :
            OwnName(k) =>
                LET t == transformations[k]
                    into == {e[1] : e \in {d \in Edges : d[2] = t.name}}
                    from == {e[2] : e \in {d \in Edges : d[1] = t.name}}
                IN  IF t.column_mappings = <<>>
                    THEN /\ into = Range(t.input_tables) \cap KeptNames
                         /\ from = Range(t.output_tables) \cap KeptNames
                    ELSE /\ into \cap KeptNames = {}
                         /\ from \cap KeptNames = {}

-----------------------------------------------------------------------------
(* Reading the scores *)

Scored == phase = "scored"

Bonus(present) == IF present THEN 1 ELSE 0

\* the number of metadata facts present on a column
Facts(column) ==
    Bonus(column.description # <<>>) + Bonus(column.data_type # <<>>) +
    Bonus(column.source_columns # <<>>)

\* the stored column scores of a table, added up
RECURSIVE StoredSum(_, _)
StoredSum(table, j) ==
    IF j = 0 THEN 0 ELSE StoredSum(table, j - 1) + table.columns[j].quality_score

\* num / den rounded to the nearest integer, a tie going to the even one
\* (Python's round)
RoundDiv(num, den) ==
    LET f == num \div den
        r == num % den
    IN  IF 2 * r > den \/ (2 * r = den /\ f % 2 = 1) THEN f + 1 ELSE f

-----------------------------------------------------------------------------
(* C8: after update_quality_scores every column's score is ten times the   *)
(* number of facts present among description, data type and sources, so    *)
(* it is 0, 10, 20 or 30.                                                  *)
C8_ColumnScore ==
    Scored =>
        \A k \in DOMAIN tables : \A j \in DOMAIN tables[k].columns :
            /\ tables[k].columns[j].quality_score = 10 * Facts(tables[k].columns[j])
            /\ tables[k].columns[j].quality_score \in {0, 10, 20, 30}

\* C8's case: the scores are computed and the catalog holds a column with all
\* three facts next to one with none.
C8_Witness ==
    /\ Scored
    /\ \E k \in DOMAIN tables : \E i, j \in DOMAIN tables[k].columns :
         /\ Facts(tables[k].columns[i]) = 3 /\ tables[k].columns[i].quality_score = 30
         /\ Facts(tables[k].columns[j]) = 0 /\ tables[k].columns[j].quality_score = 0

-----------------------------------------------------------------------------
(* C9, as claimed: after update_quality_scores a table with columns has    *)
(* the score min(100, round(avg(column scores) * 0.8 + 20 if described)),  *)
(* rounded to the nearest integer.  The value is                           *)
(* (8 * sum + 200 * n * described) / (10 * n) for n columns.               *)
C9_RoundedTableScore ==
    Scored =>
        \A k \in DOMAIN tables :
            LET table == tables[k]
                n == Len(table.columns)
                has_description == IF table.description # <<>> THEN 20 ELSE 0
            IN  n > 0 =>
                  table.quality_score =
                      Min(100, RoundDiv(8 * StoredSum(table, n) + 10 * n * has_description, 10 * n))

-----------------------------------------------------------------------------
(* C10: after update_quality_scores a table without columns has the score *)
(* 20 if it has a description and 0 if it has none.                        *)
C10_EmptyTableScore ==
    Scored =>
        \A k \in DOMAIN tables :
            tables[k].columns = <<>> =>
                tables[k].quality_score = (IF tables[k].description # <<>> THEN 20 ELSE 0)

\* C10's case: the scores are computed and the catalog holds a described table
\* without columns and an undescribed one.
C10_Witness ==
    /\ Scored
    /\ \E i, j \in DOMAIN tables :
         /\ tables[i].columns = <<>> /\ tables[i].description # <<>> /\ tables[i].quality_score = 20
         /\ tables[j].columns = <<>> /\ tables[j].description = <<>> /\ tables[j].quality_score = 0

-----------------------------------------------------------------------------
(* C12: update_quality_scores is idempotent: once the scores are computed, *)
(* computing them again changes no field of any table or column.           *)
C12_Idempotent ==
    Scored => update_quality_scores(tables) = tables

\* C12's case: the scores are computed over a catalog in which a column and
\* its table carry a positive score
C12_Witness ==
    /\ Scored
    /\ \E k \in DOMAIN tables :
         /\ tables[k].quality_score > 0
         /\ \E j \in DOMAIN tables[k].columns : tables[k].columns[j].quality_score > 0

-----------------------------------------------------------------------------
(* Reading the two tabs *)

\* the last operation went through and was of one of these kinds
Did(names) == phase \in names /\ event.message = "success"

\* the last operation updated a table through the table form
TableUpdated == Did({"table_form"}) /\ "updated" \in DOMAIN event

ScoresCurrent == tables = update_quality_scores(tables)

-----------------------------------------------------------------------------
(* C11, as claimed: after every structural mutation made in the tabs (a   *)
(* column added, edited or deleted, a mapping added or deleted, a table    *)
(* edited) every stored score of every table and column is the score the   *)
(* scoring rule gives for the current metadata.                            *)
C11_ScoresCurrent ==
    (\/ Did({"add_column", "edit_column", "delete_column", "add_mapping", "delete_mapping"})
     \/ TableUpdated)
        => ScoresCurrent

-----------------------------------------------------------------------------
\* column without its source list and its score
Described(column) ==
    [name |-> column.name, data_type |-> column.data_type, description |-> column.description]

\* table without its columns and its score
Header(table) ==
    [name |-> table.name, schema |-> table.schema, description |-> table.description,
     table_type |-> table.table_type, autosys_jobs |-> table.autosys_jobs,
     last_updated |-> table.last_updated]

\* after is before with one element equal to v taken out, the first one
WithoutFirst(before, after, v) ==
    \E k \in DOMAIN before :
        /\ before[k] = v
        /\ \A m \in 1..(k - 1) : before[m] # v
        /\ Len(after) = Len(before) - 1
        /\ \A m \in DOMAIN after : after[m] = before[IF m < k THEN m ELSE m + 1]

\* the column j of table k is the target of the mapping m
IsTarget(tbls, k, j, m) ==
    tbls[k].name = m.target_table /\ tbls[k].columns[j].name = m.target_column

(* C18: deleting mapping j of transformation i takes that one mapping out  *)
(* of the transformation and the id "source_table.source_column" out of    *)
(* the source list of the mapping's target column; where the id is not in  *)
(* the list, or no column is the target, every source list stays as it     *)
(* was; the deletion reports success; nothing else of the catalog changes  *)
(* but the scores.                                                         *)
C18_MappingDeletion ==
    [][phase' = "delete_mapping" =>
        LET i == event'.transformation_index
            j == event'.mapping_index
            m == transformations[i].column_mappings[j]
        IN  /\ event'.message = "success"
            /\ event'.mapping = m
            /\ DOMAIN transformations' = DOMAIN transformations
            /\ \A k \in DOMAIN transformations :
                  transformations'[k] =
                      IF k = i
                      THEN [transformations[k] EXCEPT !.column_mappings = pop(@, j)]
                      ELSE transformations[k]
            /\ DOMAIN tables' = DOMAIN tables
            /\ \A k \in DOMAIN tables :
                  /\ Header(tables'[k]) = Header(tables[k])
                  /\ DOMAIN tables'[k].columns = DOMAIN tables[k].columns
                  /\ \A c \in DOMAIN tables[k].columns :
                        LET before == tables[k].columns[c]
                            after == tables'[k].columns[c]
                        IN  /\ Described(after) = Described(before)
                            /\ IF IsTarget(tables, k, c, m) /\ SourceId(m) \in Range(before.source_columns)
                               THEN WithoutFirst(before.source_columns, after.source_columns, SourceId(m))
                               ELSE after.source_columns = before.source_columns
    ]_vars

\* C18's case: a mapping was deleted whose twin is still on the transformation
\* and whose target column is there, its source list without the id: the
\* deletion took the id out, and the twin's deletion will find it absent
C18_Witness ==
    /\ Did({"delete_mapping"})
    /\ event.mapping \in Range(transformations[event.transformation_index].column_mappings)
    /\ \E k \in DOMAIN tables : \E c \in DOMAIN tables[k].columns :
          /\ IsTarget(tables, k, c, event.mapping)
          /\ SourceId(event.mapping) \notin Range(tables[k].columns[c].source_columns)

-----------------------------------------------------------------------------
(* C19, as claimed: in every state the tabs reach every table has a name   *)
(* and a schema, every column a name and a data type, and every            *)
(* transformation a name, an input table and an output table, the forms    *)
(* (the column edit form among them) refusing an empty required field.     *)
C19_RequiredFields ==
    /\ \A k \in DOMAIN tables :
          /\ tables[k].name # <<>> /\ tables[k].schema # <<>>
          /\ \A j \in DOMAIN tables[k].columns :
                tables[k].columns[j].name # <<>> /\ tables[k].columns[j].data_type # <<>>
    /\ \A k \in DOMAIN transformations :
          /\ transformations[k].name # <<>>
          /\ transformations[k].input_tables # <<>>
          /\ transformations[k].output_tables # <<>>

-----------------------------------------------------------------------------
(* C20, as claimed: in every state reached by creating and editing tables  *)
(* and transformations no two tables have the same name and no two         *)
(* transformations have the same name.                                     *)
C20_UniqueNames ==
    /\ \A k, l \in DOMAIN tables : tables[k].name = tables[l].name => k = l
    /\ \A k, l \in DOMAIN transformations :
          transformations[k].name = transformations[l].name => k = l

-----------------------------------------------------------------------------
(* C13, as claimed: importing the document that was just exported leaves   *)
(* the catalog as it was, field for field and in the same order: tables    *)
(* with their scores and last_updated, columns, transformations with their *)
(* created_date, and mappings.                                             *)
C13_RoundTrip ==
    [][(Did({"export"}) /\ phase' = "import")
          => (tables' = tables /\ transformations' = transformations)]_vars

-----------------------------------------------------------------------------
\* the document can be imported: the file is there, it is JSON, and every
\* record has its required keys
Importable(doc) ==
    /\ doc.exists /\ doc.wellformed
    /\ \A k \in DOMAIN get(doc.data, "tables", <<>>) :
          LET td == doc.data.tables[k]
          IN  /\ TableKeys \subseteq DOMAIN td
              /\ \A j \in DOMAIN get(td, "columns", <<>>) : ColumnKeys \subseteq DOMAIN td.columns[j]
    /\ \A k \in DOMAIN get(doc.data, "transformations", <<>>) :
          LET trd == doc.data.transformations[k]
          IN  /\ TransformationKeys \subseteq DOMAIN trd
              /\ \A j \in DOMAIN get(trd, "column_mappings", <<>>) :
                    MappingKeys \subseteq DOMAIN trd.column_mappings[j]

\* the catalog holds the records of the document, one for one
Replaced(tbls, trs, doc) ==
    /\ Len(tbls) = Len(get(doc.data, "tables", <<>>))
    /\ \A k \in DOMAIN tbls : tbls[k].name = doc.data.tables[k].name
    /\ Len(trs) = Len(get(doc.data, "transformations", <<>>))
    /\ \A k \in DOMAIN trs : trs[k].name = doc.data.transformations[k].name

(* C14: an import fails exactly when the file is missing, is not JSON or   *)
(* has a record that lacks a required key, and then tables and             *)
(* transformations are what they were; otherwise both are replaced by the  *)
(* document's records.  No import replaces one and not the other.          *)
C14_FailAtomic ==
    [][phase' = "import" =>
        IF Importable(document)
        THEN event'.message = "success" /\ Replaced(tables', transformations', document)
        ELSE event'.message = "error" /\ tables' = tables /\ transformations' = transformations
    ]_vars

\* C14's case: an import has failed on a transformation record of a document
\* whose table records are all good, with other tables in the session than
\* those of the document
C14_Witness ==
    /\ phase = "import" /\ event.message = "error"
    /\ document.exists /\ document.wellformed
    /\ "tables" \in DOMAIN document.data
    /\ \A k \in DOMAIN document.data.tables : TableParses(document.data.tables[k])
    /\ Len(document.data.tables) # Len(tables)
    /\ tables # <<>>

-----------------------------------------------------------------------------
(* C15, as claimed: after a successful import every record carries, for    *)
(* each field, the document's value where the document has the key, and    *)
(* where it has not: autosys_jobs [], table_type "Other", quality_score 0, *)
(* last_updated the time of the import, column_mappings [],                *)
(* source_columns [] (and created_date the time of the import, the rule of *)
(* a mapping empty).  The import took place at clock - 1.                  *)
C15_ImportDefaults ==
    (phase = "import" /\ event.message = "success") =>
        /\ \A k \in DOMAIN tables :
              LET td == document.data.tables[k]
                  table == tables[k]
              IN  /\ table.name = td.name /\ table.schema = td.schema
                  /\ table.description = td.description
                  /\ table.autosys_jobs = get(td, "autosys_jobs", <<>>)
                  /\ table.table_type = get(td, "table_type", "Other")
                  /\ table.quality_score = get(td, "quality_score", 0)
                  /\ table.last_updated = get(td, "last_updated", clock - 1)
                  /\ Len(table.columns) = Len(get(td, "columns", <<>>))
                  /\ \A j \in DOMAIN table.columns :
                        /\ Described(table.columns[j]) = Described(td.columns[j])
                        /\ table.columns[j].source_columns = get(td.columns[j], "source_columns", <<>>)
                        /\ table.columns[j].quality_score = get(td.columns[j], "quality_score", 0)
        /\ \A k \in DOMAIN transformations :
              LET trd == document.data.transformations[k]
                  transformation == transformations[k]
              IN  /\ \A key \in TransformationKeys : transformation[key] = trd[key]
                  /\ transformation.autosys_jobs = get(trd, "autosys_jobs", <<>>)
                  /\ transformation.created_date = get(trd, "created_date", clock - 1)
                  /\ Len(transformation.column_mappings) = Len(get(trd, "column_mappings", <<>>))
                  /\ \A j \in DOMAIN transformation.column_mappings :
                        /\ \A key \in MappingKeys :
                              transformation.column_mappings[j][key] = trd.column_mappings[j][key]
                        /\ transformation.column_mappings[j].transformation_rule =
                               get(trd.column_mappings[j], "transformation_rule", <<>>)

-----------------------------------------------------------------------------
(* Reading the search results *)

\* a search has run; q is what was searched for
Searched == phase = "search" /\ event.message = "results"

SameLetter(a, b) ==
    \/ a = b
    \/ \E n \in DOMAIN UpperCase :
          {a, b} = {UpperCase[n], LowerCase[n]}

\* q is a substring of text, the case of the letters aside
Within(q, text) ==
    \E i \in 0..(Len(text) - Len(q)) : \A m \in DOMAIN q : SameLetter(q[m], text[i + m])

WithinSome(q, texts) == \E k \in DOMAIN texts : Within(q, texts[k])

TableFound(q, table) ==
    \/ WithinSome(q, <<table.name, table.description, table.schema, table.table_type>>)
    \/ WithinSome(q, table.autosys_jobs)

TransformationFound(q, transformation) ==
    \/ WithinSome(q, <<transformation.name, transformation.description, transformation.logic>>)
    \/ WithinSome(q, transformation.autosys_jobs)

ColumnFound(q, column) == WithinSome(q, <<column.name, column.description, column.data_type>>)

\* s, each element replaced by its image under Op
Mapped(s, Op(_)) == [k \in DOMAIN s |-> Op(s[k])]

\* the result records of the columns found, table after table from table k on
RECURSIVE ColumnsFound(_, _)
ColumnsFound(q, k) ==
    IF k > Len(tables) THEN <<>>
    ELSE Mapped(SelectSeq(tables[k].columns, LAMBDA column : ColumnFound(q, column)),
                LAMBDA column : ColumnResult(tables[k], column))
         \o ColumnsFound(q, k + 1)

-----------------------------------------------------------------------------
(* C16: a search lists a table whenever the query is, the case of letters  *)
(* aside, a substring of one of its job names, and a transformation        *)
(* likewise; and it lists a table only for a query within its name,        *)
(* description, schema, table type or a job name, a transformation only    *)
(* for one within its name, description, logic or a job name: the listed   *)
(* records are those of the entities found, as many as were found.         *)
C16_JobSearch ==
    Searched =>
        LET q == event.search_query
            found_tables == {k \in DOMAIN tables : TableFound(q, tables[k])}
            found_transformations ==
                {k \in DOMAIN transformations : TransformationFound(q, transformations[k])}
        IN  /\ \A k \in DOMAIN tables :
                  WithinSome(q, tables[k].autosys_jobs) =>
                      TableResult(tables[k]) \in Range(results.tables)
            /\ \A k \in DOMAIN transformations :
                  WithinSome(q, transformations[k].autosys_jobs) =>
                      TransformationResult(transformations[k]) \in Range(results.transformations)
            /\ Range(results.tables) = {TableResult(tables[k]) : k \in found_tables}
            /\ Len(results.tables) = Cardinality(found_tables)
            /\ Range(results.transformations) =
                   {TransformationResult(transformations[k]) : k \in found_transformations}
            /\ Len(results.transformations) = Cardinality(found_transformations)

\* C16's case: the search lists a table and a transformation for a query
\* that is within a job name of each, written in another case, and within no
\* other field of either
C16_Witness ==
    /\ Searched
    /\ \E k \in DOMAIN tables :
          LET table == tables[k]
          IN  /\ WithinSome(event.search_query, table.autosys_jobs)
              /\ ~autosys_match_CaseSensitive(event.search_query, table.autosys_jobs)
              /\ ~WithinSome(event.search_query,
                             <<table.name, table.description, table.schema, table.table_type>>)
              /\ TableResult(table) \in Range(results.tables)
    /\ \E k \in DOMAIN transformations :
          LET transformation == transformations[k]
          IN  /\ WithinSome(event.search_query, transformation.autosys_jobs)
              /\ ~WithinSome(event.search_query,
                             <<transformation.name, transformation.description,
                               transformation.logic>>)
              /\ TransformationResult(transformation) \in Range(results.transformations)

-----------------------------------------------------------------------------
(* C17: a search reports a column, under the id "table.column", exactly    *)
(* when the query is, the case of letters aside, a substring of its name,  *)
(* description or data type, whether or not its table is listed; and the   *)
(* three result lists follow the order of the catalog: tables and          *)
(* transformations in list order, columns table by table.                  *)
C17_ColumnSearch ==
    Searched =>
        LET q == event.search_query
        IN  /\ results.columns = ColumnsFound(q, 1)
            /\ results.tables =
                   Mapped(SelectSeq(tables, LAMBDA table : TableFound(q, table)), TableResult)
            /\ results.transformations =
                   Mapped(SelectSeq(transformations,
                                    LAMBDA transformation : TransformationFound(q, transformation)),
                          TransformationResult)

\* C17's case: the search reports columns of two tables, one of a table that
\* is listed and, before it, one of a table that is not
C17_Witness ==
    /\ Searched
    /\ Len(tables) = 2
    /\ \E i, j \in DOMAIN results.columns :
          /\ i < j
          /\ results.columns[i].table = tables[1].name
          /\ results.columns[j].table = tables[2].name
          /\ ~TableFound(event.search_query, tables[1])
          /\ TableFound(event.search_query, tables[2])
          /\ tables[1].name # tables[2].name

-----------------------------------------------------------------------------
\* the node n was added by add_node of the builder: it carries a label and a shape
Materialized(n) ==
    /\ n \in Nodes
    /\ HasAttr(graph.nodes[n], "label")
    /\ HasAttr(graph.nodes[n], "shape")

(* C29: for every catalog, mode and focus, both endpoints of every edge of *)
(* the built graph are nodes the builder added as a table, column or       *)
(* transformation node, carrying label and shape; no node of the graph was *)
(* created by add_edge alone.                                              *)
C29_WellFormed ==
    Built =>
        /\ \A e \in Edges : Materialized(e[1]) /\ Materialized(e[2])
        /\ \A n \in Nodes : Materialized(n)

\* C29's case: the graph has an edge, and a transformation names an input or
\* output table that is not a node (unknown or filtered out by the focus)
C29_Witness ==
    /\ Built
    /\ Edges # {}
    /\ \E k \in DOMAIN transformations :
          \E n \in Range(transformations[k].input_tables) \cup Range(transformations[k].output_tables) :
              n \notin Nodes

-----------------------------------------------------------------------------
\* table names are unique among tables, transformation names among transformations
UniquePerKind ==
    /\ \A i, j \in DOMAIN tables : i # j => tables[i].name # tables[j].name
    /\ \A i, j \in DOMAIN transformations :
          i # j => transformations[i].name # transformations[j].name

\* the columns of the kept tables, by position
KeptColumns == UNION {{<<k, j>> : j \in DOMAIN tables[k].columns} : k \in KeptTables}

(* C30, as claimed: in column-level mode, when table names are unique      *)
(* among tables and transformation names among transformations, every kept *)
(* table has a node of shape box in its type's colour, every               *)
(* transformation has a node of shape diamond, and the graph has as many   *)
(* nodes as there are kept tables, columns of kept tables and              *)
(* transformations.                                                        *)
C30_DistinctNodes ==
    (Built /\ include_columns /\ UniquePerKind) =>
        /\ \A k \in KeptTables :
              /\ tables[k].name \in Nodes
              /\ HasShape(tables[k].name, "box")
              /\ graph.nodes[tables[k].name].color = TableColor(tables[k].table_type)
        /\ \A k \in DOMAIN transformations :
              /\ transformations[k].name \in Nodes
              /\ HasShape(transformations[k].name, "diamond")
        /\ Cardinality(Nodes) =
              Cardinality(KeptTables) + Cardinality(KeptColumns) + Len(transformations)

-----------------------------------------------------------------------------
(* C21, as claimed: in every state the two tabs can reach,                 *)
(* selected_table_index is None or an index into the tables list and       *)
(* selected_transformation_index is None or an index into the              *)
(* transformations list, so that the create/edit forms, which index the    *)
(* lists with them, never raise.                                           *)
C21_ValidSelection ==
    /\ session.selected_table_index \in 0..Len(tables)
    /\ session.selected_transformation_index \in 0..Len(transformations)

-----------------------------------------------------------------------------
\* every column mapping whose target column exists has its source id in that
\* column's source list
MappingsSourced(tbls, trs) ==
    \A i \in DOMAIN trs : \A n \in DOMAIN trs[i].column_mappings :
        \A k \in DOMAIN tbls : \A j \in DOMAIN tbls[k].columns :
            IsTarget(tbls, k, j, trs[i].column_mappings[n]) =>
                SourceId(trs[i].column_mappings[n]) \in Range(tbls[k].columns[j].source_columns)

\* how many times v occurs in list
Occurrences(list, v) == Cardinality({n \in DOMAIN list : list[n] = v})

(* C22, as claimed: adding a mapping S -> T puts the id                    *)
(* "source_table.source_column" into the target column's source list once, *)
(* leaving it alone where the list already holds it; and an add-mapping or *)
(* delete-mapping step taken where every mapping with a target column has  *)
(* its source id in that column's source list leads to a state where that  *)
(* is so again.                                                            *)
C22_MappingsSourced ==
    [][/\ (phase' = "add_mapping" /\ event'.message = "success") =>
              \A k \in DOMAIN tables : \A j \in DOMAIN tables[k].columns :
                  IsTarget(tables, k, j, event'.mapping) =>
                      LET id == SourceId(event'.mapping)
                          before == tables[k].columns[j].source_columns
                          after == tables'[k].columns[j].source_columns
                      IN  /\ id \in Range(after)
                          /\ Occurrences(after, id) =
                                 IF id \in Range(before) THEN Occurrences(before, id) ELSE 1
       /\ (phase' \in {"add_mapping", "delete_mapping"} /\ MappingsSourced(tables, transformations)) =>
              MappingsSourced(tables', transformations')
    ]_vars

-----------------------------------------------------------------------------
\* the table a source id "table.column" names
SourceTable(id) == split(id, ".")[1]

(* C23: a confirmed delete of table i removes exactly that table, with its *)
(* columns, from the tables list: the tables before it and after it stay   *)
(* as they were, in order, with their columns and source lists, and every  *)
(* transformation, with its input tables, output tables and column         *)
(* mappings, stays as it was, whether or not it names the deleted table;   *)
(* the first click on Delete changes nothing of the catalog.               *)
C23_NoCascade ==
    [][phase' = "delete_table" =>
        LET i == event'.table_index
        IN  /\ transformations' = transformations
            /\ IF i \in session.confirm_delete_table
               THEN /\ event'.message = "success"
                    /\ Len(tables') = Len(tables) - 1
                    /\ \A k \in DOMAIN tables' :
                          tables'[k] = tables[IF k < i THEN k ELSE k + 1]
               ELSE /\ event'.message = "warning"
                    /\ tables' = tables
    ]_vars

\* C23's case: a table was deleted that a transformation still names as an
\* input, a column mapping as its source table, and a column of another
\* table in its source list
C23_Witness ==
    /\ Did({"delete_table"})
    /\ \E k \in DOMAIN transformations :
          /\ \E n \in DOMAIN transformations[k].input_tables :
                transformations[k].input_tables[n] \notin TableNames
          /\ \E n \in DOMAIN transformations[k].column_mappings :
                transformations[k].column_mappings[n].source_table \notin TableNames
    /\ \E k \in DOMAIN tables : \E j \in DOMAIN tables[k].columns :
          \E n \in DOMAIN tables[k].columns[j].source_columns :
              SourceTable(tables[k].columns[j].source_columns[n]) \notin TableNames

-----------------------------------------------------------------------------
\* the tick of the last operation
LastTick == clock - 1

(* C24, as claimed: with time a logical clock that every operation         *)
(* advances, a table created or updated through the table form carries the *)
(* tick of that operation as last_updated, and so does a table to which a  *)
(* column was just added, of which a column was just edited, or from which *)
(* a column was just deleted.                                              *)
C24_LastUpdated ==
    /\ (Did({"table_form"}) /\ "created" \in DOMAIN event) =>
           tables[event.created].last_updated = LastTick
    /\ TableUpdated => tables[event.updated].last_updated = LastTick
    /\ Did({"add_column", "edit_column", "delete_column"}) =>
           tables[event.table_index].last_updated = LastTick

-----------------------------------------------------------------------------
\* the operation just done was the confirmed delete that removed position i
\* of its list
Removed(op, kind, at) == op = kind /\ at.message = "success"

(* C26, as claimed, for the entity that a deletion has just moved up:      *)
(* entities only ever move towards the front of their list, and a          *)
(* confirmation key, once set, stays set.  So the table that the last      *)
(* operation, the removal of position k, moved to position i >= k has had  *)
(* no Delete click if no key confirm_delete_table_{m} with m > i is set,   *)
(* and the next click, its first, must not remove it; likewise for         *)
(* transformations and confirm_delete_trans_{m}.                           *)
C26_TwoClicks ==
    [][/\ (/\ Removed(phase, "delete_table", event)
           /\ Removed(phase', "delete_table", event')
           /\ event.table_index <= event'.table_index) =>
              \E m \in session.confirm_delete_table : m > event'.table_index
       /\ (/\ Removed(phase, "delete_transformation", event)
           /\ Removed(phase', "delete_transformation", event')
           /\ event.transformation_index <= event'.transformation_index) =>
              \E m \in session.confirm_delete_trans : m > event'.transformation_index
    ]_vars

-----------------------------------------------------------------------------
\* an edit request is pending on the table of which the last operation deleted
\* a column, at or after the deleted position.  The request is older than the
\* deletion, and columns only ever move towards the front of their table, so
\* the column now at the requested position is not the one on which Edit was
\* clicked
EditTargetMoved ==
    /\ Did({"delete_column"})
    /\ session.column_to_edit # NoColumnToEdit
    /\ session.column_to_edit.table_index = event.table_index
    /\ session.column_to_edit.col_index >= event.col_index

(* C27, as claimed, for a column deleted between Edit and Update Column:   *)
(* when the column on which Edit was clicked is no longer at the requested *)
(* position, Update Column applies the submitted values to no column.      *)
C27_ClickedColumn ==
    [][EditTargetMoved => phase' # "edit_column"]_vars

-----------------------------------------------------------------------------
\* no two tables share a name, and no two columns of a table share a name
UniqueColumnIds(tbls) ==
    /\ \A i, k \in DOMAIN tbls : i # k => tbls[i].name # tbls[k].name
    /\ \A k \in DOMAIN tbls : \A i, j \in DOMAIN tbls[k].columns :
          i # j => tbls[k].columns[i].name # tbls[k].columns[j].name

\* no column has its own id "table.column" in its source list
NoSelfSource(tbls) ==
    \A k \in DOMAIN tbls : \A j \in DOMAIN tbls[k].columns :
        Dotted(tbls[k].name, tbls[k].columns[j].name) \notin Range(tbls[k].columns[j].source_columns)

(* C28, as claimed: on a catalog with unique table names and unique column *)
(* names per table in which no column has its own id in its source list,   *)
(* an add-column, edit-column or add-mapping operation that keeps the      *)
(* names unique leads to a catalog in which, again, no column has its own  *)
(* id in its source list.                                                  *)
C28_NoSelfSource ==
    [][(/\ phase' \in {"add_column", "edit_column", "add_mapping"}
        /\ UniqueColumnIds(tables) /\ UniqueColumnIds(tables')
        /\ NoSelfSource(tables)) =>
            NoSelfSource(tables')
    ]_vars

-----------------------------------------------------------------------------
(* C25, as claimed: after "Show in Graph" on a table or column result the  *)
(* graph the tab draws is built with focus_entity equal to that result's   *)
(* id, and the graph built for export is built with the include_columns    *)
(* and the focus_entity of the graph the tab draws.                        *)
C25_FocusReachesBuilder ==
    /\ (/\ phase = "show_in_graph"
        /\ event.message = "graph"
        /\ event.kind \in {"tables", "columns"}) =>
           /\ focus_entity = session.focus_entity
           /\ graph = create_lineage_graph(Named(tables), transformations,
                                           include_columns, session.focus_entity)
    /\ phase = "export_graph" =>
           /\ event.include_columns = include_columns
           /\ event.focus_entity = focus_entity
           /\ event.graph = graph

====
